---------------------------- MODULE Spec2Model ----------------------------
(***************************************************************************)
(* SHA-3 over Keccak-f[1600] (rv_sha3): the six permutation strategies,    *)
(* the sponge (absorb / squeeze), the process-wide permutation selector    *)
(* and the two fixed-length entry points.                                  *)
(*                                                                         *)
(* Data representation.  A lane (uint64_t) is the set of its set bit       *)
(* positions, a subset of 0..63 (bit 0 is the least significant bit), so   *)
(* that ^, &, | and ~ are set operations and a shift moves positions and   *)
(* drops those that leave 0..63.  An array of lanes is a function on       *)
(* 0..n-1.  A byte is an integer in 0..255.  The byte view A_bytes of the  *)
(* state union is the little-endian one of the targets the code is built   *)
(* for (RV64, x86-64): byte k is bits 8*(k%8) .. 8*(k%8)+7 of lane k/8.    *)
(***************************************************************************)
EXTENDS Integers, Sequences, FiniteSets, TLC

VARIABLES
    func,     \* keccakf1600_state_permute: the selected strategy
    use_lc,   \* use_lc: lane complementing at the sponge boundaries
    lastSet,  \* arguments of the latest keccakf1600_set_permutation_function
    call,     \* the digest call of the API client (its locals, see CallInit)
    tests,    \* sha3_test.c main(): position in the list of strategies
    input,    \* the message and digest length a client passed to its call
    digests,  \* sha3_test.c main(): the digest each strategy returned
    perm,     \* permutation bench: one running permutation per strategy
    thr,      \* concurrent digests: the control state of each call
    frames    \* concurrent digests: the storage (st, N, C) of each call

vars == <<func, use_lc, lastSet, call, tests, input, digests, perm, thr, frames>>

-----------------------------------------------------------------------------
(* keccak1600.h *)

KECCAK_NUM_COLS == 5
KECCAK_NUM_LANES == 25
KECCAK1600_LANE_BITS == 64
KECCAK1600_LANE_BYTES == 8
KECCAK1600_NUM_ROUNDS == 24
KECCAK1600_STATE_SIZE == 200

LaneBits == 0 .. (KECCAK1600_LANE_BITS - 1)

\* The bits of the w-bit unsigned number n.
BitsOf(n, w) == {b \in 0 .. (w - 1) : (n \div (2 ^ b)) % 2 = 1}

\* A 64-bit constant written as four 16-bit words, most significant first.
Lane64(w3, w2, w1, w0) ==
    {b + 48 : b \in BitsOf(w3, 16)} \cup {b + 32 : b \in BitsOf(w2, 16)}
        \cup {b + 16 : b \in BitsOf(w1, 16)} \cup {b : b \in BitsOf(w0, 16)}

Lane0 == {}                \* 0
LaneOnes == {b : b \in LaneBits}   \* ~0ULL

\* What an expression is worth once the C standard stops defining it (a
\* lane shifted by 64 or more, or by a negative count): no lane at all, and
\* every operation that takes it gives it back.
Undef == {KECCAK1600_LANE_BITS}

Xor(a, b) == IF a = Undef \/ b = Undef THEN Undef ELSE (a \ b) \cup (b \ a)   \* a ^ b
And(a, b) == IF a = Undef \/ b = Undef THEN Undef ELSE a \cap b                \* a & b
Or(a, b) == IF a = Undef \/ b = Undef THEN Undef ELSE a \cup b                 \* a | b
Not(a) == IF a = Undef THEN Undef ELSE LaneBits \ a                           \* ~a

\* val << n and val >> n on a 64-bit lane; the shift count has to be in
\* 0..63 for the shift to be defined.
Shl(val, n) ==
    IF val = Undef \/ n \notin LaneBits THEN Undef
    ELSE {b + n : b \in {c \in val : c + n < KECCAK1600_LANE_BITS}}
Shr(val, n) ==
    IF val = Undef \/ n \notin LaneBits THEN Undef
    ELSE {b - n : b \in {c \in val : c >= n}}

\* rotl_lane(val, times): (val << times) | (val >> (64 - times)).
rotl_lane(val, times) ==
    Or(Shl(val, times), Shr(val, KECCAK1600_LANE_BITS - times))

\* What a build of rotl_lane can return.  With both shift counts in 0..63
\* it is the one value of the expression.  With a count outside it the
\* result depends on the build: a shifter that keeps the low six bits of
\* the count (or the rotate instruction the comment above rotl_lane hopes
\* for), a shifter that gives 0 once the count passes 63, or, when the
\* count is known at compile time, whatever the optimiser leaves (all bits
\* clear or all bits set stand for that).
rotl_lane_outcomes(val, times) ==
    IF rotl_lane(val, times) # Undef
    THEN {rotl_lane(val, times)}
    ELSE { Or(Shl(val, times % KECCAK1600_LANE_BITS),
              Shr(val, (KECCAK1600_LANE_BITS - times) % KECCAK1600_LANE_BITS)),
           Or(IF times \in LaneBits THEN Shl(val, times) ELSE Lane0,
              IF (KECCAK1600_LANE_BITS - times) \in LaneBits
              THEN Shr(val, KECCAK1600_LANE_BITS - times) ELSE Lane0),
           Lane0,
           LaneOnes }

\* Array literals and fills, indexed from 0 as in C.
Arr5(a, b, c, d, e) == (0 :> a) @@ (1 :> b) @@ (2 :> c) @@ (3 :> d) @@ (4 :> e)

RECURSIVE FillArr(_, _)
FillArr(n, v) == IF n = 1 THEN (0 :> v) ELSE FillArr(n - 1, v) @@ ((n - 1) :> v)

ZeroLanes == FillArr(KECCAK_NUM_LANES, Lane0)   \* lane_t X[25] = { 0 }
ZeroCols == FillArr(KECCAK_NUM_COLS, Lane0)     \* lane_t X[5] = { 0 }

\* The column parities C[x] = A[x] ^ A[x+5] ^ A[x+10] ^ A[x+15] ^ A[x+20].
Parity(A, x) == Xor(Xor(Xor(Xor(A[x], A[x + 5]), A[x + 10]), A[x + 15]), A[x + 20])

-----------------------------------------------------------------------------
(* keccak1600_ref.c: the reference strategy (tables, not __OPTIMIZE_SIZE__) *)

pi_lane_idxes ==
    <<10,  7, 11, 17, 18,
       3,  5, 16,  8, 21,
      24,  4, 15, 23, 19,
      13, 12,  2, 20, 14,
      22,  9,  6,  1>>

\* Faulty variant: the last offset of the table is 64 where it is 44.
rho_offsets_wide ==
    << 1,  3,  6, 10, 15,
      21, 28, 36, 45, 55,
       2, 14, 27, 41, 56,
       8, 25, 43, 62, 18,
      39, 61, 20, 64>>

rho_offsets ==
    << 1,  3,  6, 10, 15,
      21, 28, 36, 45, 55,
       2, 14, 27, 41, 56,
       8, 25, 43, 62, 18,
      39, 61, 20, 44>>

\* pi_lane_idxes[i] and rho_offsets[idx] for a C index 0..23.
PiIdx(i) == pi_lane_idxes[i + 1]
get_rho_for_idx(idx) == rho_offsets[idx + 1]

round_constants ==
    << Lane64(    0,     0,     0,     1),   \* 0x0000000000000001
       Lane64(    0,     0,     0, 32898),   \* 0x0000000000008082
       Lane64(32768,     0,     0, 32906),   \* 0x800000000000808a
       Lane64(32768,     0, 32768, 32768),   \* 0x8000000080008000
       Lane64(    0,     0,     0, 32907),   \* 0x000000000000808b
       Lane64(    0,     0, 32768,     1),   \* 0x0000000080000001
       Lane64(32768,     0, 32768, 32897),   \* 0x8000000080008081
       Lane64(32768,     0,     0, 32777),   \* 0x8000000000008009
       Lane64(    0,     0,     0,   138),   \* 0x000000000000008a
       Lane64(    0,     0,     0,   136),   \* 0x0000000000000088
       Lane64(    0,     0, 32768, 32777),   \* 0x0000000080008009
       Lane64(    0,     0, 32768,    10),   \* 0x000000008000000a
       Lane64(    0,     0, 32768, 32907),   \* 0x000000008000808b
       Lane64(32768,     0,     0,   139),   \* 0x800000000000008b
       Lane64(32768,     0,     0, 32905),   \* 0x8000000000008089
       Lane64(32768,     0,     0, 32771),   \* 0x8000000000008003
       Lane64(32768,     0,     0, 32770),   \* 0x8000000000008002
       Lane64(32768,     0,     0,   128),   \* 0x8000000000000080
       Lane64(    0,     0,     0, 32778),   \* 0x000000000000800a
       Lane64(32768,     0, 32768,    10),   \* 0x800000008000000a
       Lane64(32768,     0, 32768, 32897),   \* 0x8000000080008081
       Lane64(32768,     0,     0, 32896),   \* 0x8000000000008080
       Lane64(    0,     0, 32768,     1),   \* 0x0000000080000001
       Lane64(32768,     0, 32768, 32776) >> \* 0x8000000080008008

\* round_constants[r_idx] for a C index 0..23.
RC(r_idx) == round_constants[r_idx + 1]

\* for (y_offset ...) A[x + y_offset] ^= D;  the inner loop, for column x.
theta_column(A, D, x) ==
    [A EXCEPT ![x] = Xor(@, D), ![x + 5] = Xor(@, D), ![x + 10] = Xor(@, D),
              ![x + 15] = Xor(@, D), ![x + 20] = Xor(@, D)]

\* for (x ...) for (y_offset ...) A[x + y_offset] ^= D[x];
RECURSIVE theta_loop(_, _, _)
theta_loop(A, D, x) ==
    IF x = KECCAK_NUM_COLS THEN A
    ELSE theta_loop(theta_column(A, D[x], x), D, x + 1)

theta(A) ==
    LET C == Arr5(Parity(A, 0), Parity(A, 1), Parity(A, 2), Parity(A, 3), Parity(A, 4))
        D == Arr5(Xor(C[4], rotl_lane(C[1], 1)),
                  Xor(C[0], rotl_lane(C[2], 1)),
                  Xor(C[1], rotl_lane(C[3], 1)),
                  Xor(C[2], rotl_lane(C[4], 1)),
                  Xor(C[3], rotl_lane(C[0], 1)))
    IN theta_loop(A, D, 0)

\* for (i = 23; i > 0; i--) A[pi[i]] = rotl_lane(A[pi[i - 1]], rho(i));
RECURSIVE rho_pi_loop(_, _)
rho_pi_loop(A, i) ==
    IF i = 0 THEN A
    ELSE rho_pi_loop([A EXCEPT ![PiIdx(i)] =
                         rotl_lane(A[PiIdx(i - 1)], get_rho_for_idx(i))], i - 1)

\* Faulty variant: A[1] read after the loop has overwritten it.
rho_pi_nosave(A) ==
    LET B == rho_pi_loop(A, KECCAK_NUM_LANES - 2)
    IN [B EXCEPT ![PiIdx(0)] = rotl_lane(B[1], get_rho_for_idx(0))]

rho_pi(A) ==
    LET first == A[1]
        B == rho_pi_loop(A, KECCAK_NUM_LANES - 2)
    IN [B EXCEPT ![PiIdx(0)] = rotl_lane(first, get_rho_for_idx(0))]

\* One plane of chi: a[] is the copy of the plane taken before it is changed.
chi_plane(A, y_offset) ==
    LET a == Arr5(A[0 + y_offset], A[1 + y_offset], A[2 + y_offset],
                  A[3 + y_offset], A[4 + y_offset])
    IN [A EXCEPT ![0 + y_offset] = Xor(@, And(Not(a[1]), a[2])),
                 ![1 + y_offset] = Xor(@, And(Not(a[2]), a[3])),
                 ![2 + y_offset] = Xor(@, And(Not(a[3]), a[4])),
                 ![3 + y_offset] = Xor(@, And(Not(a[4]), a[0])),
                 ![4 + y_offset] = Xor(@, And(Not(a[0]), a[1]))]

chi(A) == chi_plane(chi_plane(chi_plane(chi_plane(chi_plane(A, 0), 5), 10), 15), 20)

iota(A, round) == [A EXCEPT ![0] = Xor(@, RC(round))]

\* The body of the loop of keccakf1600_state_permute_ref.
keccakf1600_round_ref(A, i) == iota(chi(rho_pi(theta(A))), i)

-----------------------------------------------------------------------------
(* keccak1600_compact.c: the size-optimised strategy *)

RECURSIVE theta_compact_loop(_, _, _)
theta_compact_loop(A, C, x) ==
    IF x = KECCAK_NUM_COLS THEN A
    ELSE LET D == Xor(C[(x + 4) % 5], rotl_lane(C[(x + 1) % 5], 1))
         IN theta_compact_loop(theta_column(A, D, x), C, x + 1)

theta_compact(A) ==
    LET C == Arr5(Parity(A, 0), Parity(A, 1), Parity(A, 2), Parity(A, 3), Parity(A, 4))
    IN theta_compact_loop(A, C, 0)

\* Faulty variant: the closed form taken from idx instead of idx + 1.
get_rho_for_idx_from0(idx) == ((idx * (idx + 1)) \div 2) % 64

\* Faulty variant: the closed form without the mask & 0x3F.
get_rho_for_idx_nomask(idx) == ((idx + 1) * (idx + 2)) \div 2

\* int i = idx + 1; return ((i * (i + 1)) >> 1) & 0x3F;
get_rho_for_idx_compact(idx) ==
    LET i == idx + 1
    IN ((i * (i + 1)) \div 2) % 64

RECURSIVE rho_pi_compact_loop(_, _)
rho_pi_compact_loop(A, i) ==
    IF i = 0 THEN A
    ELSE rho_pi_compact_loop([A EXCEPT ![PiIdx(i)] =
             rotl_lane(A[PiIdx(i - 1)], get_rho_for_idx_compact(i))], i - 1)

rho_pi_compact(A) ==
    LET first == A[1]
        B == rho_pi_compact_loop(A, KECCAK_NUM_LANES - 2)
    IN [B EXCEPT ![PiIdx(0)] = rotl_lane(first, get_rho_for_idx_compact(0))]

chi_compact_plane(A, y_offset) ==
    LET a == Arr5(A[0 + y_offset], A[1 + y_offset], A[2 + y_offset],
                  A[3 + y_offset], A[4 + y_offset])
    IN [A EXCEPT ![0 + y_offset] = Xor(@, And(Not(a[(0 + 1) % 5]), a[(0 + 2) % 5])),
                 ![1 + y_offset] = Xor(@, And(Not(a[(1 + 1) % 5]), a[(1 + 2) % 5])),
                 ![2 + y_offset] = Xor(@, And(Not(a[(2 + 1) % 5]), a[(2 + 2) % 5])),
                 ![3 + y_offset] = Xor(@, And(Not(a[(3 + 1) % 5]), a[(3 + 2) % 5])),
                 ![4 + y_offset] = Xor(@, And(Not(a[(4 + 1) % 5]), a[(4 + 2) % 5]))]

chi_compact(A) ==
    chi_compact_plane(chi_compact_plane(chi_compact_plane(chi_compact_plane(
        chi_compact_plane(A, 0), 5), 10), 15), 20)

rc_compressed ==
    <<  1,  26,  94, 112,  31,  33, 121,  85,    \* 0x01 0x1A 0x5E 0x70 0x1F 0x21 0x79 0x55
       14,  12,  53,  38,  63,  79,  93,  83,    \* 0x0E 0x0C 0x35 0x26 0x3F 0x4F 0x5D 0x53
       82,  72,  22, 102, 121,  88,  33, 116 >>  \* 0x52 0x48 0x16 0x66 0x79 0x58 0x21 0x74

\* Faulty variant: bit i of rc set in place of bit (1 << i) - 1.
rc_decompress_flat(rc_comp) == {i : i \in BitsOf(rc_comp, 7)}

\* The loop of iota: bit (1 << i) - 1 of rc is set when bit i of rc_comp is.
rc_decompress(rc_comp) == {(2 ^ i) - 1 : i \in BitsOf(rc_comp, 7)}

iota_compact(A, round) ==
    [A EXCEPT ![0] = Xor(@, rc_decompress(rc_compressed[round + 1]))]

\* The body of the loop of keccakf1600_state_permute_compact.
keccakf1600_round_compact(A, i) ==
    iota_compact(chi_compact(rho_pi_compact(theta_compact(A))), i)

-----------------------------------------------------------------------------
(* keccak1600_inplaceur.c: in-place, unrolled.  v = [A, C, T, k]: the state *)
(* array, the locals C[5] and T, and the number of statements executed.     *)

\* The statements of keccakf1600_round_inplace_unrolled in program order; each
\* reads the arrays as the statements before it left them.
InplaceStmt(v, k, r_idx) ==
    CASE k = 0 -> [v EXCEPT !.C[0] = Xor(Xor(Xor(Xor(v.A[0], v.A[5]), v.A[10]), v.A[15]), v.A[20])]
      [] k = 1 -> [v EXCEPT !.C[1] = Xor(Xor(Xor(Xor(v.A[1], v.A[6]), v.A[11]), v.A[16]), v.A[21])]
      [] k = 2 -> [v EXCEPT !.C[2] = Xor(Xor(Xor(Xor(v.A[2], v.A[7]), v.A[12]), v.A[17]), v.A[22])]
      [] k = 3 -> [v EXCEPT !.C[3] = Xor(Xor(Xor(Xor(v.A[3], v.A[8]), v.A[13]), v.A[18]), v.A[23])]
      [] k = 4 -> [v EXCEPT !.C[4] = Xor(Xor(Xor(Xor(v.A[4], v.A[9]), v.A[14]), v.A[19]), v.A[24])]
      [] k = 5 -> [v EXCEPT !.T = v.C[4]]
      [] k = 6 -> [v EXCEPT !.C[4] = Xor(@, rotl_lane(v.C[1], 1))]
      [] k = 7 -> [v EXCEPT !.C[1] = Xor(@, rotl_lane(v.C[3], 1))]
      [] k = 8 -> [v EXCEPT !.C[3] = Xor(@, rotl_lane(v.C[0], 1))]
      [] k = 9 -> [v EXCEPT !.C[0] = Xor(@, rotl_lane(v.C[2], 1))]
      [] k = 10 -> [v EXCEPT !.C[2] = Xor(@, rotl_lane(v.T, 1))]
      [] k = 11 -> [v EXCEPT !.A[0] = Xor(@, v.C[4])]
      [] k = 12 -> [v EXCEPT !.T = v.A[1]]
      [] k = 13 -> [v EXCEPT !.A[1] = rotl_lane(Xor(v.A[6], v.C[0]), 44)]
      [] k = 14 -> [v EXCEPT !.A[6] = rotl_lane(Xor(v.A[9], v.C[3]), 20)]
      [] k = 15 -> [v EXCEPT !.A[9] = rotl_lane(Xor(v.A[22], v.C[1]), 61)]
      [] k = 16 -> [v EXCEPT !.A[22] = rotl_lane(Xor(v.A[14], v.C[3]), 39)]
      [] k = 17 -> [v EXCEPT !.A[14] = rotl_lane(Xor(v.A[20], v.C[4]), 18)]
      [] k = 18 -> [v EXCEPT !.A[20] = rotl_lane(Xor(v.A[2], v.C[1]), 62)]
      [] k = 19 -> [v EXCEPT !.A[2] = rotl_lane(Xor(v.A[12], v.C[1]), 43)]
      [] k = 20 -> [v EXCEPT !.A[12] = rotl_lane(Xor(v.A[13], v.C[2]), 25)]
      [] k = 21 -> [v EXCEPT !.A[13] = rotl_lane(Xor(v.A[19], v.C[3]), 8)]
      [] k = 22 -> [v EXCEPT !.A[19] = rotl_lane(Xor(v.A[23], v.C[2]), 56)]
      [] k = 23 -> [v EXCEPT !.A[23] = rotl_lane(Xor(v.A[15], v.C[4]), 41)]
      [] k = 24 -> [v EXCEPT !.A[15] = rotl_lane(Xor(v.A[4], v.C[3]), 27)]
      [] k = 25 -> [v EXCEPT !.A[4] = rotl_lane(Xor(v.A[24], v.C[3]), 14)]
      [] k = 26 -> [v EXCEPT !.A[24] = rotl_lane(Xor(v.A[21], v.C[0]), 2)]
      [] k = 27 -> [v EXCEPT !.A[21] = rotl_lane(Xor(v.A[8], v.C[2]), 55)]
      [] k = 28 -> [v EXCEPT !.A[8] = rotl_lane(Xor(v.A[16], v.C[0]), 45)]
      [] k = 29 -> [v EXCEPT !.A[16] = rotl_lane(Xor(v.A[5], v.C[4]), 36)]
      [] k = 30 -> [v EXCEPT !.A[5] = rotl_lane(Xor(v.A[3], v.C[2]), 28)]
      [] k = 31 -> [v EXCEPT !.A[3] = rotl_lane(Xor(v.A[18], v.C[2]), 21)]
      [] k = 32 -> [v EXCEPT !.A[18] = rotl_lane(Xor(v.A[17], v.C[1]), 15)]
      [] k = 33 -> [v EXCEPT !.A[17] = rotl_lane(Xor(v.A[11], v.C[0]), 10)]
      [] k = 34 -> [v EXCEPT !.A[11] = rotl_lane(Xor(v.A[7], v.C[1]), 6)]
      [] k = 35 -> [v EXCEPT !.A[7] = rotl_lane(Xor(v.A[10], v.C[4]), 3)]
      [] k = 36 -> [v EXCEPT !.A[10] = rotl_lane(Xor(v.T, v.C[0]), 1)]
      [] k = 37 -> [v EXCEPT !.C[0] = v.A[0]]
      [] k = 38 -> [v EXCEPT !.C[1] = v.A[1]]
      [] k = 39 -> [v EXCEPT !.A[0] = Xor(@, And(Not(v.A[1]), v.A[2]))]
      [] k = 40 -> [v EXCEPT !.A[1] = Xor(@, And(Not(v.A[2]), v.A[3]))]
      [] k = 41 -> [v EXCEPT !.A[2] = Xor(@, And(Not(v.A[3]), v.A[4]))]
      [] k = 42 -> [v EXCEPT !.A[3] = Xor(@, And(Not(v.A[4]), v.C[0]))]
      [] k = 43 -> [v EXCEPT !.A[4] = Xor(@, And(Not(v.C[0]), v.C[1]))]
      [] k = 44 -> [v EXCEPT !.C[0] = v.A[5]]
      [] k = 45 -> [v EXCEPT !.C[1] = v.A[6]]
      [] k = 46 -> [v EXCEPT !.A[5] = Xor(@, And(Not(v.A[6]), v.A[7]))]
      [] k = 47 -> [v EXCEPT !.A[6] = Xor(@, And(Not(v.A[7]), v.A[8]))]
      [] k = 48 -> [v EXCEPT !.A[7] = Xor(@, And(Not(v.A[8]), v.A[9]))]
      [] k = 49 -> [v EXCEPT !.A[8] = Xor(@, And(Not(v.A[9]), v.C[0]))]
      [] k = 50 -> [v EXCEPT !.A[9] = Xor(@, And(Not(v.C[0]), v.C[1]))]
      [] k = 51 -> [v EXCEPT !.C[0] = v.A[10]]
      [] k = 52 -> [v EXCEPT !.C[1] = v.A[11]]
      [] k = 53 -> [v EXCEPT !.A[10] = Xor(@, And(Not(v.A[11]), v.A[12]))]
      [] k = 54 -> [v EXCEPT !.A[11] = Xor(@, And(Not(v.A[12]), v.A[13]))]
      [] k = 55 -> [v EXCEPT !.A[12] = Xor(@, And(Not(v.A[13]), v.A[14]))]
      [] k = 56 -> [v EXCEPT !.A[13] = Xor(@, And(Not(v.A[14]), v.C[0]))]
      [] k = 57 -> [v EXCEPT !.A[14] = Xor(@, And(Not(v.C[0]), v.C[1]))]
      [] k = 58 -> [v EXCEPT !.C[0] = v.A[15]]
      [] k = 59 -> [v EXCEPT !.C[1] = v.A[16]]
      [] k = 60 -> [v EXCEPT !.A[15] = Xor(@, And(Not(v.A[16]), v.A[17]))]
      [] k = 61 -> [v EXCEPT !.A[16] = Xor(@, And(Not(v.A[17]), v.A[18]))]
      [] k = 62 -> [v EXCEPT !.A[17] = Xor(@, And(Not(v.A[18]), v.A[19]))]
      [] k = 63 -> [v EXCEPT !.A[18] = Xor(@, And(Not(v.A[19]), v.C[0]))]
      [] k = 64 -> [v EXCEPT !.A[19] = Xor(@, And(Not(v.C[0]), v.C[1]))]
      [] k = 65 -> [v EXCEPT !.C[0] = v.A[20]]
      [] k = 66 -> [v EXCEPT !.C[1] = v.A[21]]
      [] k = 67 -> [v EXCEPT !.A[20] = Xor(@, And(Not(v.A[21]), v.A[22]))]
      [] k = 68 -> [v EXCEPT !.A[21] = Xor(@, And(Not(v.A[22]), v.A[23]))]
      [] k = 69 -> [v EXCEPT !.A[22] = Xor(@, And(Not(v.A[23]), v.A[24]))]
      [] k = 70 -> [v EXCEPT !.A[23] = Xor(@, And(Not(v.A[24]), v.C[0]))]
      [] k = 71 -> [v EXCEPT !.A[24] = Xor(@, And(Not(v.C[0]), v.C[1]))]
      [] k = 72 -> [v EXCEPT !.A[0] = Xor(@, RC(r_idx))]

InplaceStmts == 73

RECURSIVE inplace_run(_, _)
inplace_run(v, r_idx) ==
    IF v.k = InplaceStmts THEN v
    ELSE inplace_run([InplaceStmt(v, v.k, r_idx) EXCEPT !.k = @ + 1], r_idx)

keccakf1600_round_inplace_unrolled(A, r_idx) ==
    inplace_run([A |-> A, C |-> ZeroCols, T |-> Lane0, k |-> 0], r_idx).A

-----------------------------------------------------------------------------
(* keccak1600_intermediateur.c: unrolled, A -> N -> A *)

\* The parities C[] of keccakf1600_round_intermediate_unrolled.
iur_C(A) ==
    Arr5(Xor(Xor(Xor(Xor(A[0], A[5]), A[10]), A[15]), A[20]),
         Xor(Xor(Xor(Xor(A[1], A[6]), A[11]), A[16]), A[21]),
         Xor(Xor(Xor(Xor(A[2], A[7]), A[12]), A[17]), A[22]),
         Xor(Xor(Xor(Xor(A[3], A[8]), A[13]), A[18]), A[23]),
         Xor(Xor(Xor(Xor(A[4], A[9]), A[14]), A[19]), A[24]))

\* D[] of keccakf1600_round_intermediate_unrolled.
iur_D(C) ==
    Arr5(Xor(C[4], rotl_lane(C[1], 1)),
         Xor(C[0], rotl_lane(C[2], 1)),
         Xor(C[1], rotl_lane(C[3], 1)),
         Xor(C[2], rotl_lane(C[4], 1)),
         Xor(C[3], rotl_lane(C[0], 1)))

\* T[] of keccakf1600_round_intermediate_unrolled, as assigned for each of the five planes.
iur_T(A, D) ==
    << Arr5(Xor(A[0], D[0]),
            rotl_lane(Xor(A[6], D[1]), 44),
            rotl_lane(Xor(A[12], D[2]), 43),
            rotl_lane(Xor(A[18], D[3]), 21),
            rotl_lane(Xor(A[24], D[4]), 14)),
       Arr5(rotl_lane(Xor(A[3], D[3]), 28),
            rotl_lane(Xor(A[9], D[4]), 20),
            rotl_lane(Xor(A[10], D[0]), 3),
            rotl_lane(Xor(A[16], D[1]), 45),
            rotl_lane(Xor(A[22], D[2]), 61)),
       Arr5(rotl_lane(Xor(A[1], D[1]), 1),
            rotl_lane(Xor(A[7], D[2]), 6),
            rotl_lane(Xor(A[13], D[3]), 25),
            rotl_lane(Xor(A[19], D[4]), 8),
            rotl_lane(Xor(A[20], D[0]), 18)),
       Arr5(rotl_lane(Xor(A[4], D[4]), 27),
            rotl_lane(Xor(A[5], D[0]), 36),
            rotl_lane(Xor(A[11], D[1]), 10),
            rotl_lane(Xor(A[17], D[2]), 15),
            rotl_lane(Xor(A[23], D[3]), 56)),
       Arr5(rotl_lane(Xor(A[2], D[2]), 62),
            rotl_lane(Xor(A[8], D[3]), 55),
            rotl_lane(Xor(A[14], D[4]), 39),
            rotl_lane(Xor(A[15], D[0]), 41),
            rotl_lane(Xor(A[21], D[1]), 2)) >>

\* The assignments to N[] of keccakf1600_round_intermediate_unrolled; T[p] is T[] during plane p.
iur_N(N, T, r_idx) ==
    [N EXCEPT ![0] = Xor(Xor(T[1][0], And(Not(T[1][1]), T[1][2])), RC(r_idx)),
              ![1] = Xor(T[1][1], And(Not(T[1][2]), T[1][3])),
              ![2] = Xor(T[1][2], And(Not(T[1][3]), T[1][4])),
              ![3] = Xor(T[1][3], And(Not(T[1][4]), T[1][0])),
              ![4] = Xor(T[1][4], And(Not(T[1][0]), T[1][1])),
              ![5] = Xor(T[2][0], And(Not(T[2][1]), T[2][2])),
              ![6] = Xor(T[2][1], And(Not(T[2][2]), T[2][3])),
              ![7] = Xor(T[2][2], And(Not(T[2][3]), T[2][4])),
              ![8] = Xor(T[2][3], And(Not(T[2][4]), T[2][0])),
              ![9] = Xor(T[2][4], And(Not(T[2][0]), T[2][1])),
              ![10] = Xor(T[3][0], And(Not(T[3][1]), T[3][2])),
              ![11] = Xor(T[3][1], And(Not(T[3][2]), T[3][3])),
              ![12] = Xor(T[3][2], And(Not(T[3][3]), T[3][4])),
              ![13] = Xor(T[3][3], And(Not(T[3][4]), T[3][0])),
              ![14] = Xor(T[3][4], And(Not(T[3][0]), T[3][1])),
              ![15] = Xor(T[4][0], And(Not(T[4][1]), T[4][2])),
              ![16] = Xor(T[4][1], And(Not(T[4][2]), T[4][3])),
              ![17] = Xor(T[4][2], And(Not(T[4][3]), T[4][4])),
              ![18] = Xor(T[4][3], And(Not(T[4][4]), T[4][0])),
              ![19] = Xor(T[4][4], And(Not(T[4][0]), T[4][1])),
              ![20] = Xor(T[5][0], And(Not(T[5][1]), T[5][2])),
              ![21] = Xor(T[5][1], And(Not(T[5][2]), T[5][3])),
              ![22] = Xor(T[5][2], And(Not(T[5][3]), T[5][4])),
              ![23] = Xor(T[5][3], And(Not(T[5][4]), T[5][0])),
              ![24] = Xor(T[5][4], And(Not(T[5][0]), T[5][1]))]

keccakf1600_round_intermediate_unrolled(A, N, r_idx) ==
    iur_N(N, iur_T(A, iur_D(iur_C(A))), r_idx)

-----------------------------------------------------------------------------
(* keccak1600_intermediateur_lc.c: lane complementing *)

\* The parities C[] of keccakf1600_round_intermediate_unrolled_lc.
lc_C(A) ==
    Arr5(Xor(Xor(Xor(Xor(A[0], A[5]), A[10]), A[15]), A[20]),
         Xor(Xor(Xor(Xor(A[1], A[6]), A[11]), A[16]), A[21]),
         Xor(Xor(Xor(Xor(A[2], A[7]), A[12]), A[17]), A[22]),
         Xor(Xor(Xor(Xor(A[3], A[8]), A[13]), A[18]), A[23]),
         Xor(Xor(Xor(Xor(A[4], A[9]), A[14]), A[19]), A[24]))

\* D[] of keccakf1600_round_intermediate_unrolled_lc.
lc_D(C) ==
    Arr5(Xor(C[4], rotl_lane(C[1], 1)),
         Xor(C[0], rotl_lane(C[2], 1)),
         Xor(C[1], rotl_lane(C[3], 1)),
         Xor(C[2], rotl_lane(C[4], 1)),
         Xor(C[3], rotl_lane(C[0], 1)))

\* T[] of keccakf1600_round_intermediate_unrolled_lc, as assigned for each of the five planes.
lc_T(A, D) ==
    << Arr5(Xor(A[0], D[0]),
            rotl_lane(Xor(A[6], D[1]), 44),
            rotl_lane(Xor(A[12], D[2]), 43),
            rotl_lane(Xor(A[18], D[3]), 21),
            rotl_lane(Xor(A[24], D[4]), 14)),
       Arr5(rotl_lane(Xor(A[3], D[3]), 28),
            rotl_lane(Xor(A[9], D[4]), 20),
            rotl_lane(Xor(A[10], D[0]), 3),
            rotl_lane(Xor(A[16], D[1]), 45),
            rotl_lane(Xor(A[22], D[2]), 61)),
       Arr5(rotl_lane(Xor(A[1], D[1]), 1),
            rotl_lane(Xor(A[7], D[2]), 6),
            rotl_lane(Xor(A[13], D[3]), 25),
            rotl_lane(Xor(A[19], D[4]), 8),
            rotl_lane(Xor(A[20], D[0]), 18)),
       Arr5(rotl_lane(Xor(A[4], D[4]), 27),
            rotl_lane(Xor(A[5], D[0]), 36),
            rotl_lane(Xor(A[11], D[1]), 10),
            rotl_lane(Xor(A[17], D[2]), 15),
            rotl_lane(Xor(A[23], D[3]), 56)),
       Arr5(rotl_lane(Xor(A[2], D[2]), 62),
            rotl_lane(Xor(A[8], D[3]), 55),
            rotl_lane(Xor(A[14], D[4]), 39),
            rotl_lane(Xor(A[15], D[0]), 41),
            rotl_lane(Xor(A[21], D[1]), 2)) >>

\* The assignments to N[] of keccakf1600_round_intermediate_unrolled_lc; T[p] is T[] during plane p.
lc_N(N, T, r_idx) ==
    [N EXCEPT ![0] = Xor(Xor(T[1][0], Or(T[1][1], T[1][2])), RC(r_idx)),
              ![1] = Xor(T[1][1], Or(Not(T[1][2]), T[1][3])),
              ![2] = Xor(T[1][2], And(T[1][3], T[1][4])),
              ![3] = Xor(T[1][3], Or(T[1][4], T[1][0])),
              ![4] = Xor(T[1][4], And(T[1][0], T[1][1])),
              ![5] = Xor(T[2][0], Or(T[2][1], T[2][2])),
              ![6] = Xor(T[2][1], And(T[2][2], T[2][3])),
              ![7] = Xor(T[2][2], Or(T[2][3], Not(T[2][4]))),
              ![8] = Xor(T[2][3], Or(T[2][4], T[2][0])),
              ![9] = Xor(T[2][4], And(T[2][0], T[2][1])),
              ![10] = Xor(T[3][0], Or(T[3][1], T[3][2])),
              ![11] = Xor(T[3][1], And(T[3][2], T[3][3])),
              ![12] = Xor(T[3][2], And(Not(T[3][3]), T[3][4])),
              ![13] = Xor(Not(T[3][3]), Or(T[3][4], T[3][0])),
              ![14] = Xor(T[3][4], And(T[3][0], T[3][1])),
              ![15] = Xor(T[4][0], And(T[4][1], T[4][2])),
              ![16] = Xor(T[4][1], Or(T[4][2], T[4][3])),
              ![17] = Xor(T[4][2], Or(Not(T[4][3]), T[4][4])),
              ![18] = Xor(Not(T[4][3]), And(T[4][4], T[4][0])),
              ![19] = Xor(T[4][4], Or(T[4][0], T[4][1])),
              ![20] = Xor(T[5][0], And(Not(T[5][1]), T[5][2])),
              ![21] = Xor(Not(T[5][1]), Or(T[5][2], T[5][3])),
              ![22] = Xor(T[5][2], And(T[5][3], T[5][4])),
              ![23] = Xor(T[5][3], Or(T[5][4], T[5][0])),
              ![24] = Xor(T[5][4], And(T[5][0], T[5][1]))]

\* Faulty variant: the round without lane complementing run on the masked
\* state.
keccakf1600_round_intermediate_unrolled_lc_plain(A, N, r_idx) ==
    iur_N(N, iur_T(A, iur_D(iur_C(A))), r_idx)

keccakf1600_round_intermediate_unrolled_lc(A, N, r_idx) ==
    lc_N(N, lc_T(A, lc_D(lc_C(A))), r_idx)

-----------------------------------------------------------------------------
(* keccak1600_intermediateur_ep.c: early parity; a round returns the buffer *)
(* it wrote (N) and the parity vector it leaves (C).                        *)

\* D[] of keccakf1600_round_intermediate_unrolled_ep.
ep_D(C) ==
    Arr5(Xor(C[4], rotl_lane(C[1], 1)),
         Xor(C[0], rotl_lane(C[2], 1)),
         Xor(C[1], rotl_lane(C[3], 1)),
         Xor(C[2], rotl_lane(C[4], 1)),
         Xor(C[3], rotl_lane(C[0], 1)))

\* T[] of keccakf1600_round_intermediate_unrolled_ep, as assigned for each of the five planes.
ep_T(A, D) ==
    << Arr5(Xor(A[0], D[0]),
            rotl_lane(Xor(A[6], D[1]), 44),
            rotl_lane(Xor(A[12], D[2]), 43),
            rotl_lane(Xor(A[18], D[3]), 21),
            rotl_lane(Xor(A[24], D[4]), 14)),
       Arr5(rotl_lane(Xor(A[3], D[3]), 28),
            rotl_lane(Xor(A[9], D[4]), 20),
            rotl_lane(Xor(A[10], D[0]), 3),
            rotl_lane(Xor(A[16], D[1]), 45),
            rotl_lane(Xor(A[22], D[2]), 61)),
       Arr5(rotl_lane(Xor(A[1], D[1]), 1),
            rotl_lane(Xor(A[7], D[2]), 6),
            rotl_lane(Xor(A[13], D[3]), 25),
            rotl_lane(Xor(A[19], D[4]), 8),
            rotl_lane(Xor(A[20], D[0]), 18)),
       Arr5(rotl_lane(Xor(A[4], D[4]), 27),
            rotl_lane(Xor(A[5], D[0]), 36),
            rotl_lane(Xor(A[11], D[1]), 10),
            rotl_lane(Xor(A[17], D[2]), 15),
            rotl_lane(Xor(A[23], D[3]), 56)),
       Arr5(rotl_lane(Xor(A[2], D[2]), 62),
            rotl_lane(Xor(A[8], D[3]), 55),
            rotl_lane(Xor(A[14], D[4]), 39),
            rotl_lane(Xor(A[15], D[0]), 41),
            rotl_lane(Xor(A[21], D[1]), 2)) >>

\* The assignments to N[] of keccakf1600_round_intermediate_unrolled_ep; T[p] is T[] during plane p.
ep_N(N, T, r_idx) ==
    [N EXCEPT ![0] = Xor(Xor(T[1][0], And(Not(T[1][1]), T[1][2])), RC(r_idx)),
              ![1] = Xor(T[1][1], And(Not(T[1][2]), T[1][3])),
              ![2] = Xor(T[1][2], And(Not(T[1][3]), T[1][4])),
              ![3] = Xor(T[1][3], And(Not(T[1][4]), T[1][0])),
              ![4] = Xor(T[1][4], And(Not(T[1][0]), T[1][1])),
              ![5] = Xor(T[2][0], And(Not(T[2][1]), T[2][2])),
              ![6] = Xor(T[2][1], And(Not(T[2][2]), T[2][3])),
              ![7] = Xor(T[2][2], And(Not(T[2][3]), T[2][4])),
              ![8] = Xor(T[2][3], And(Not(T[2][4]), T[2][0])),
              ![9] = Xor(T[2][4], And(Not(T[2][0]), T[2][1])),
              ![10] = Xor(T[3][0], And(Not(T[3][1]), T[3][2])),
              ![11] = Xor(T[3][1], And(Not(T[3][2]), T[3][3])),
              ![12] = Xor(T[3][2], And(Not(T[3][3]), T[3][4])),
              ![13] = Xor(T[3][3], And(Not(T[3][4]), T[3][0])),
              ![14] = Xor(T[3][4], And(Not(T[3][0]), T[3][1])),
              ![15] = Xor(T[4][0], And(Not(T[4][1]), T[4][2])),
              ![16] = Xor(T[4][1], And(Not(T[4][2]), T[4][3])),
              ![17] = Xor(T[4][2], And(Not(T[4][3]), T[4][4])),
              ![18] = Xor(T[4][3], And(Not(T[4][4]), T[4][0])),
              ![19] = Xor(T[4][4], And(Not(T[4][0]), T[4][1])),
              ![20] = Xor(T[5][0], And(Not(T[5][1]), T[5][2])),
              ![21] = Xor(T[5][1], And(Not(T[5][2]), T[5][3])),
              ![22] = Xor(T[5][2], And(Not(T[5][3]), T[5][4])),
              ![23] = Xor(T[5][3], And(Not(T[5][4]), T[5][0])),
              ![24] = Xor(T[5][4], And(Not(T[5][0]), T[5][1]))]

\* Faulty variant: the first plane XORed into the old C[] instead of replacing it.
ep_Cnext_accumulate(C, N) ==
    [[[[[C EXCEPT ![0] = Xor(@, N[0]), ![1] = Xor(@, N[1]), ![2] = Xor(@, N[2]), ![3] = Xor(@, N[3]), ![4] = Xor(@, N[4])]
           EXCEPT ![0] = Xor(@, N[5]), ![1] = Xor(@, N[6]), ![2] = Xor(@, N[7]), ![3] = Xor(@, N[8]), ![4] = Xor(@, N[9])]
           EXCEPT ![0] = Xor(@, N[10]), ![1] = Xor(@, N[11]), ![2] = Xor(@, N[12]), ![3] = Xor(@, N[13]), ![4] = Xor(@, N[14])]
           EXCEPT ![0] = Xor(@, N[15]), ![1] = Xor(@, N[16]), ![2] = Xor(@, N[17]), ![3] = Xor(@, N[18]), ![4] = Xor(@, N[19])]
           EXCEPT ![0] = Xor(@, N[20]), ![1] = Xor(@, N[21]), ![2] = Xor(@, N[22]), ![3] = Xor(@, N[23]), ![4] = Xor(@, N[24])]

\* The updates of C[] of keccakf1600_round_intermediate_unrolled_ep, after each plane, from the new N.
ep_Cnext(C, N) ==
    [[[[[C EXCEPT ![0] = N[0], ![1] = N[1], ![2] = N[2], ![3] = N[3], ![4] = N[4]]
           EXCEPT ![0] = Xor(@, N[5]), ![1] = Xor(@, N[6]), ![2] = Xor(@, N[7]), ![3] = Xor(@, N[8]), ![4] = Xor(@, N[9])]
           EXCEPT ![0] = Xor(@, N[10]), ![1] = Xor(@, N[11]), ![2] = Xor(@, N[12]), ![3] = Xor(@, N[13]), ![4] = Xor(@, N[14])]
           EXCEPT ![0] = Xor(@, N[15]), ![1] = Xor(@, N[16]), ![2] = Xor(@, N[17]), ![3] = Xor(@, N[18]), ![4] = Xor(@, N[19])]
           EXCEPT ![0] = Xor(@, N[20]), ![1] = Xor(@, N[21]), ![2] = Xor(@, N[22]), ![3] = Xor(@, N[23]), ![4] = Xor(@, N[24])]

ep_out(N, C) == [N |-> N, C |-> ep_Cnext(C, N)]

keccakf1600_round_intermediate_unrolled_ep(A, N, C, r_idx) ==
    ep_out(ep_N(N, ep_T(A, ep_D(C)), r_idx), C)

\* D[] of keccakf1600_round_intermediate_unrolled_ep_last.
epl_D(C) ==
    Arr5(Xor(C[4], rotl_lane(C[1], 1)),
         Xor(C[0], rotl_lane(C[2], 1)),
         Xor(C[1], rotl_lane(C[3], 1)),
         Xor(C[2], rotl_lane(C[4], 1)),
         Xor(C[3], rotl_lane(C[0], 1)))

\* T[] of keccakf1600_round_intermediate_unrolled_ep_last, as assigned for each of the five planes.
epl_T(A, D) ==
    << Arr5(Xor(A[0], D[0]),
            rotl_lane(Xor(A[6], D[1]), 44),
            rotl_lane(Xor(A[12], D[2]), 43),
            rotl_lane(Xor(A[18], D[3]), 21),
            rotl_lane(Xor(A[24], D[4]), 14)),
       Arr5(rotl_lane(Xor(A[3], D[3]), 28),
            rotl_lane(Xor(A[9], D[4]), 20),
            rotl_lane(Xor(A[10], D[0]), 3),
            rotl_lane(Xor(A[16], D[1]), 45),
            rotl_lane(Xor(A[22], D[2]), 61)),
       Arr5(rotl_lane(Xor(A[1], D[1]), 1),
            rotl_lane(Xor(A[7], D[2]), 6),
            rotl_lane(Xor(A[13], D[3]), 25),
            rotl_lane(Xor(A[19], D[4]), 8),
            rotl_lane(Xor(A[20], D[0]), 18)),
       Arr5(rotl_lane(Xor(A[4], D[4]), 27),
            rotl_lane(Xor(A[5], D[0]), 36),
            rotl_lane(Xor(A[11], D[1]), 10),
            rotl_lane(Xor(A[17], D[2]), 15),
            rotl_lane(Xor(A[23], D[3]), 56)),
       Arr5(rotl_lane(Xor(A[2], D[2]), 62),
            rotl_lane(Xor(A[8], D[3]), 55),
            rotl_lane(Xor(A[14], D[4]), 39),
            rotl_lane(Xor(A[15], D[0]), 41),
            rotl_lane(Xor(A[21], D[1]), 2)) >>

\* The assignments to N[] of keccakf1600_round_intermediate_unrolled_ep_last; T[p] is T[] during plane p.
epl_N(N, T, r_idx) ==
    [N EXCEPT ![0] = Xor(Xor(T[1][0], And(Not(T[1][1]), T[1][2])), RC(r_idx)),
              ![1] = Xor(T[1][1], And(Not(T[1][2]), T[1][3])),
              ![2] = Xor(T[1][2], And(Not(T[1][3]), T[1][4])),
              ![3] = Xor(T[1][3], And(Not(T[1][4]), T[1][0])),
              ![4] = Xor(T[1][4], And(Not(T[1][0]), T[1][1])),
              ![5] = Xor(T[2][0], And(Not(T[2][1]), T[2][2])),
              ![6] = Xor(T[2][1], And(Not(T[2][2]), T[2][3])),
              ![7] = Xor(T[2][2], And(Not(T[2][3]), T[2][4])),
              ![8] = Xor(T[2][3], And(Not(T[2][4]), T[2][0])),
              ![9] = Xor(T[2][4], And(Not(T[2][0]), T[2][1])),
              ![10] = Xor(T[3][0], And(Not(T[3][1]), T[3][2])),
              ![11] = Xor(T[3][1], And(Not(T[3][2]), T[3][3])),
              ![12] = Xor(T[3][2], And(Not(T[3][3]), T[3][4])),
              ![13] = Xor(T[3][3], And(Not(T[3][4]), T[3][0])),
              ![14] = Xor(T[3][4], And(Not(T[3][0]), T[3][1])),
              ![15] = Xor(T[4][0], And(Not(T[4][1]), T[4][2])),
              ![16] = Xor(T[4][1], And(Not(T[4][2]), T[4][3])),
              ![17] = Xor(T[4][2], And(Not(T[4][3]), T[4][4])),
              ![18] = Xor(T[4][3], And(Not(T[4][4]), T[4][0])),
              ![19] = Xor(T[4][4], And(Not(T[4][0]), T[4][1])),
              ![20] = Xor(T[5][0], And(Not(T[5][1]), T[5][2])),
              ![21] = Xor(T[5][1], And(Not(T[5][2]), T[5][3])),
              ![22] = Xor(T[5][2], And(Not(T[5][3]), T[5][4])),
              ![23] = Xor(T[5][3], And(Not(T[5][4]), T[5][0])),
              ![24] = Xor(T[5][4], And(Not(T[5][0]), T[5][1]))]

keccakf1600_round_intermediate_unrolled_ep_last(A, N, C, r_idx) ==
    [N |-> epl_N(N, epl_T(A, epl_D(C)), r_idx), C |-> C]
-----------------------------------------------------------------------------
(* The permutation entry points, one round per step.  A digest call is a   *)
(* record t of the locals of keccakf1600_oneshot, keccakf1600_absorb,      *)
(* keccakf1600_squeeze and of the running permutation (see CallInit);      *)
(* t.pc is the position in the code and t.ret where the permutation        *)
(* returns to.                                                             *)

Strategies ==
    {"ref", "compact", "inplaceur", "intermediateur", "intermediateur_ep",
     "intermediateur_lc"}

\* Faulty variant: the intermediate unrolled entry point clearing st->A
\* where it should clear its local N.
permute_call_clear(t, fn, ret) ==
    LET u == [t EXCEPT !.f = fn, !.i = 0, !.ret = ret,
                       !.nperm = @ + 1, !.used = @ \cup {fn}]
    IN CASE fn = "stub" -> [u EXCEPT !.pc = ret]
         [] fn \in {"ref", "compact", "inplaceur"} -> [u EXCEPT !.pc = "permute"]
         [] fn = "intermediateur" ->
                [u EXCEPT !.pc = "permute", !.st = ZeroLanes]
         [] fn = "intermediateur_lc" ->
                [u EXCEPT !.pc = "permute", !.N = ZeroLanes]
         [] fn = "intermediateur_ep" ->
                [u EXCEPT !.pc = "permute", !.N = ZeroLanes,
                          !.C = Arr5(Parity(t.st, 0), Parity(t.st, 1), Parity(t.st, 2),
                                     Parity(t.st, 3), Parity(t.st, 4))]

\* keccakf1600_state_permute(st) with the selector holding fn: the prologue
\* of the entry point (its locals N, C and i).  stub_state_permute returns
\* at once.  nperm and used record the calls made.
permute_call(t, fn, ret) ==
    LET u == [t EXCEPT !.f = fn, !.i = 0, !.ret = ret,
                       !.nperm = @ + 1, !.used = @ \cup {fn}]
    IN CASE fn = "stub" -> [u EXCEPT !.pc = ret]
         [] fn \in {"ref", "compact", "inplaceur"} -> [u EXCEPT !.pc = "permute"]
         [] fn \in {"intermediateur", "intermediateur_lc"} ->
                [u EXCEPT !.pc = "permute", !.N = ZeroLanes]
         [] fn = "intermediateur_ep" ->
                [u EXCEPT !.pc = "permute", !.N = ZeroLanes,
                          !.C = Arr5(Parity(t.st, 0), Parity(t.st, 1), Parity(t.st, 2),
                                     Parity(t.st, 3), Parity(t.st, 4))]

\* Faulty variant: the intermediate unrolled entry point reading st->A and
\* writing N in every round.
permute_round_oneway(t) ==
    CASE t.f = "ref" -> [t EXCEPT !.st = keccakf1600_round_ref(t.st, t.i)]
      [] t.f = "compact" -> [t EXCEPT !.st = keccakf1600_round_compact(t.st, t.i)]
      [] t.f = "inplaceur" ->
             [t EXCEPT !.st = keccakf1600_round_inplace_unrolled(t.st, t.i)]
      [] t.f = "intermediateur" ->
             [t EXCEPT !.N = keccakf1600_round_intermediate_unrolled(t.st, t.N, t.i)]
      [] t.f = "intermediateur_lc" ->
             IF t.i % 2 = 0
             THEN [t EXCEPT !.N = keccakf1600_round_intermediate_unrolled_lc(t.st, t.N, t.i)]
             ELSE [t EXCEPT !.st = keccakf1600_round_intermediate_unrolled_lc(t.N, t.st, t.i)]
      [] t.f = "intermediateur_ep" ->
             IF t.i % 2 = 0
             THEN LET r == keccakf1600_round_intermediate_unrolled_ep(t.st, t.N, t.C, t.i)
                  IN [t EXCEPT !.N = r.N, !.C = r.C]
             ELSE IF t.i < KECCAK1600_NUM_ROUNDS - 1
             THEN LET r == keccakf1600_round_intermediate_unrolled_ep(t.N, t.st, t.C, t.i)
                  IN [t EXCEPT !.st = r.N, !.C = r.C]
             ELSE LET r == keccakf1600_round_intermediate_unrolled_ep_last(t.N, t.st, t.C, t.i)
                  IN [t EXCEPT !.st = r.N, !.C = r.C]

\* Round t.i of the running permutation.  The two-buffer strategies write N
\* from A in even rounds and A from N in odd rounds.
permute_round(t) ==
    CASE t.f = "ref" -> [t EXCEPT !.st = keccakf1600_round_ref(t.st, t.i)]
      [] t.f = "compact" -> [t EXCEPT !.st = keccakf1600_round_compact(t.st, t.i)]
      [] t.f = "inplaceur" ->
             [t EXCEPT !.st = keccakf1600_round_inplace_unrolled(t.st, t.i)]
      [] t.f = "intermediateur" ->
             IF t.i % 2 = 0
             THEN [t EXCEPT !.N = keccakf1600_round_intermediate_unrolled(t.st, t.N, t.i)]
             ELSE [t EXCEPT !.st = keccakf1600_round_intermediate_unrolled(t.N, t.st, t.i)]
      [] t.f = "intermediateur_lc" ->
             IF t.i % 2 = 0
             THEN [t EXCEPT !.N = keccakf1600_round_intermediate_unrolled_lc(t.st, t.N, t.i)]
             ELSE [t EXCEPT !.st = keccakf1600_round_intermediate_unrolled_lc(t.N, t.st, t.i)]
      [] t.f = "intermediateur_ep" ->
             IF t.i % 2 = 0
             THEN LET r == keccakf1600_round_intermediate_unrolled_ep(t.st, t.N, t.C, t.i)
                  IN [t EXCEPT !.N = r.N, !.C = r.C]
             ELSE IF t.i < KECCAK1600_NUM_ROUNDS - 1
             THEN LET r == keccakf1600_round_intermediate_unrolled_ep(t.N, t.st, t.C, t.i)
                  IN [t EXCEPT !.st = r.N, !.C = r.C]
             ELSE LET r == keccakf1600_round_intermediate_unrolled_ep_last(t.N, t.st, t.C, t.i)
                  IN [t EXCEPT !.st = r.N, !.C = r.C]

\* One iteration of the loop of the entry point; after the last round the
\* entry point returns to t.ret.
permute_step(t) ==
    LET u == permute_round(t)
    IN [u EXCEPT !.i = t.i + 1,
                 !.pc = IF t.i + 1 = KECCAK1600_NUM_ROUNDS THEN t.ret ELSE "permute"]

\* Faulty variant: chi called before rho_pi.
permute_body_swapped == <<"theta", "chi", "rho_pi", "iota">>

\* The body of the loop of keccakf1600_state_permute_ref and of
\* keccakf1600_state_permute_compact: the calls in program order.
permute_body == <<"theta", "rho_pi", "chi", "iota">>

\* The call name(st->A), or iota(st->A, i), of the strategy f.
permute_stmt_apply(f, name, A, i) ==
    CASE name = "theta" -> IF f = "ref" THEN theta(A) ELSE theta_compact(A)
      [] name = "rho_pi" -> IF f = "ref" THEN rho_pi(A) ELSE rho_pi_compact(A)
      [] name = "chi" -> IF f = "ref" THEN chi(A) ELSE chi_compact(A)
      [] name = "iota" -> IF f = "ref" THEN iota(A, i) ELSE iota_compact(A, i)

\* One call of the loop body of the reference or compact entry point: call
\* t.k of round t.i; after the last call of the body i++ and the loop test.
\* ops records the calls made, each with the value of i it was made under.
permute_stmt(t) ==
    LET name == permute_body[t.k + 1]
        last == (t.k + 1 = Len(permute_body))
        i == IF last THEN t.i + 1 ELSE t.i
    IN [t EXCEPT !.st = permute_stmt_apply(t.f, name, t.st, t.i),
                 !.ops = Append(@, <<name, t.i>>),
                 !.k = IF last THEN 0 ELSE t.k + 1,
                 !.i = i,
                 !.pc = IF i = KECCAK1600_NUM_ROUNDS THEN t.ret ELSE "permute"]

-----------------------------------------------------------------------------
(* keccak1600_sponge.c *)

\* The lanes lane complementing keeps inverted.
LcLanes == {1, 2, 8, 12, 17, 20}

\* A byte placed at byte position j of a lane, and the byte at position j.
ByteLane(byte, j) == {(8 * j) + b : b \in BitsOf(byte, 8)}
Bit(lane, p) == IF p \in lane THEN 1 ELSE 0
ByteOf(lane, j) ==
    Bit(lane, 8 * j) + (2 * Bit(lane, (8 * j) + 1)) + (4 * Bit(lane, (8 * j) + 2))
        + (8 * Bit(lane, (8 * j) + 3)) + (16 * Bit(lane, (8 * j) + 4))
        + (32 * Bit(lane, (8 * j) + 5)) + (64 * Bit(lane, (8 * j) + 6))
        + (128 * Bit(lane, (8 * j) + 7))

\* Faulty variant: the byte view read most significant byte first.
StateByte_be(A, off) ==
    ByteOf(A[off \div KECCAK1600_LANE_BYTES],
           (KECCAK1600_LANE_BYTES - 1) - (off % KECCAK1600_LANE_BYTES))

\* st->A_bytes[off] and st->A_bytes[off] ^= byte.
StateByte(A, off) == ByteOf(A[off \div KECCAK1600_LANE_BYTES], off % KECCAK1600_LANE_BYTES)
XorByte(A, off, byte) ==
    [A EXCEPT ![off \div KECCAK1600_LANE_BYTES] =
                  Xor(@, ByteLane(byte, off % KECCAK1600_LANE_BYTES))]

\* *((lane_t *) (msg + msg_off)): msg is a tuple of bytes, msg[k + 1] the
\* byte at offset k.
LoadLane(msg, msg_off) ==
    UNION {ByteLane(msg[msg_off + j + 1], j) : j \in 0 .. (KECCAK1600_LANE_BYTES - 1)}

\* The loop of keccakf1600_absorb_lanes.
RECURSIVE absorb_lanes_loop(_, _, _, _, _)

absorb_lanes_loop(A, msg, i, num_lanes, msg_off) ==
    IF i < num_lanes
    THEN absorb_lanes_loop([A EXCEPT ![i] = Xor(@, LoadLane(msg, msg_off))], msg,
                           i + 1, num_lanes, msg_off + KECCAK1600_LANE_BYTES)
    ELSE [A |-> A, msg_off |-> msg_off]

\* Faulty variant: msg_off passed by value, the caller's copy not advanced.
keccakf1600_absorb_lanes_byvalue(t, fn) ==
    LET r == absorb_lanes_loop(t.st, t.msg, 0, t.lanes_per_block, t.msg_off)
    IN permute_call([t EXCEPT !.st = r.A, !.ai = @ + 1], fn, "absorb_blocks")

keccakf1600_absorb_lanes(t, fn) ==
    LET r == absorb_lanes_loop(t.st, t.msg, 0, t.lanes_per_block, t.msg_off)
    IN permute_call([t EXCEPT !.st = r.A, !.msg_off = r.msg_off, !.ai = @ + 1],
                    fn, "absorb_blocks")

\* Faulty variant: a whole block copied out whatever is left to write.
squeeze_block_len_rate(i, rate_bytes) == rate_bytes

\* block_len = (i < rate_bytes) ? i : rate_bytes;
squeeze_block_len(i, rate_bytes) == IF i < rate_bytes THEN i ELSE rate_bytes

\* Faulty variant: squeeze taking the digest length for the capacity.
squeeze_rate_bytes_md(capacity_bytes) == KECCAK1600_STATE_SIZE - (capacity_bytes \div 2)

\* int rate_bytes = KECCAK1600_STATE_SIZE - capacity_bytes;  in squeeze.
squeeze_rate_bytes(capacity_bytes) == KECCAK1600_STATE_SIZE - capacity_bytes

\* Faulty variant: no un-masking of the output.
squeeze_lc_none(md_off, lanes_out) == {}

\* The bytes of the output block the P mask is applied to: lanes 1, 2, 8,
\* 12, 17 and 20 of md_lanes, those below lanes_out.
squeeze_lc_bytes(md_off, lanes_out) ==
    {md_off + (KECCAK1600_LANE_BYTES * n) + j :
        n \in {m \in LcLanes : lanes_out > m}, j \in 0 .. (KECCAK1600_LANE_BYTES - 1)}

\* Faulty variant: the permutation called after every block, the last too.
squeeze_block_always(t, fn, lc) ==
    LET block_len == squeeze_block_len(t.si, t.s_rate_bytes)
        copied == t.md_off .. (t.md_off + block_len - 1)
        lanes_out == block_len \div 8
        inverted == IF lc THEN squeeze_lc_bytes(t.md_off, lanes_out) ELSE {}
        cp == [k \in (DOMAIN t.md) \cup copied |->
                  IF k \in copied THEN StateByte(t.st, k - t.md_off) ELSE t.md[k]]
        md == [k \in DOMAIN cp |-> IF k \in inverted THEN 255 - cp[k] ELSE cp[k]]
        u == [t EXCEPT !.md = md, !.written = @ \cup copied \cup inverted,
                       !.block_len = block_len, !.md_off = @ + block_len,
                       !.si = @ - block_len, !.lc_reads = @ \cup {lc}]
    IN permute_call(u, fn, "squeeze")

\* One iteration of the loop of keccakf1600_squeeze: memcpy, un-masking,
\* and the permutation when more output is due.
squeeze_block(t, fn, lc) ==
    LET block_len == squeeze_block_len(t.si, t.s_rate_bytes)
        copied == t.md_off .. (t.md_off + block_len - 1)
        lanes_out == block_len \div 8
        inverted == IF lc THEN squeeze_lc_bytes(t.md_off, lanes_out) ELSE {}
        cp == [k \in (DOMAIN t.md) \cup copied |->
                  IF k \in copied THEN StateByte(t.st, k - t.md_off) ELSE t.md[k]]
        md == [k \in DOMAIN cp |-> IF k \in inverted THEN 255 - cp[k] ELSE cp[k]]
        u == [t EXCEPT !.md = md, !.written = @ \cup copied \cup inverted,
                       !.block_len = block_len, !.md_off = @ + block_len,
                       !.si = @ - block_len, !.lc_reads = @ \cup {lc}]
    IN IF u.si > 0 THEN permute_call(u, fn, "squeeze") ELSE [u EXCEPT !.pc = "squeeze"]

\* A caller's output buffer of n bytes, not yet written.
FreshMd(n) == [k \in 0 .. (n - 1) |-> 165]

\* keccakf1600_oneshot(msg, msg_len, md, md_len, delim_suffix) at its entry:
\* the arguments, and every local still unset.  md_size is the size of the
\* caller's buffer.  Ghost fields: written (the offsets of md stored to),
\* nperm and used (the permutation calls made and their targets), lc_reads
\* (the values read from use_lc), delim_off and pad_off (where the padding
\* went), alone (the digest of the same call run on its own, where a client
\* records it).
CallInit(msg, msg_len, md_size, md_len, delim_suffix) ==
    [pc |-> "enter", ret |-> "enter",
     msg |-> msg, msg_len |-> msg_len, md_len |-> md_len,
     delim_suffix |-> delim_suffix,
     md |-> FreshMd(md_size), written |-> {},
     st |-> ZeroLanes, N |-> ZeroLanes, C |-> ZeroCols, f |-> "stub", i |-> 0,
     capacity_bytes |-> 0, rate_bytes |-> 0, num_blocks |-> 0,
     lanes_per_block |-> 0, msg_off |-> 0, block_off |-> 0, ai |-> 0,
     s_capacity_bytes |-> 0, s_rate_bytes |-> 0, block_len |-> 0,
     md_off |-> 0, si |-> 0,
     nperm |-> 0, used |-> {}, lc_reads |-> {}, delim_off |-> -1, pad_off |-> -1,
     alone |-> <<>>]

\* No call: the record of a client between calls.
NoCall == [CallInit(<<>>, 0, 0, 0, 0) EXCEPT !.pc = "idle"]

\* Faulty variant: lane 20 left out of the lanes pre-set under use_lc.
oneshot_enter_five(t, lc) ==
    LET st == IF lc THEN [ZeroLanes EXCEPT ![1] = LaneOnes, ![2] = LaneOnes,
                                           ![8] = LaneOnes, ![12] = LaneOnes,
                                           ![17] = LaneOnes]
              ELSE ZeroLanes
        capacity_bytes == 2 * t.md_len
        rate_bytes == KECCAK1600_STATE_SIZE - capacity_bytes
    IN [t EXCEPT !.st = st, !.lc_reads = @ \cup {lc},
                 !.capacity_bytes = capacity_bytes,
                 !.rate_bytes = rate_bytes,
                 !.num_blocks = t.msg_len \div rate_bytes,
                 !.lanes_per_block = rate_bytes \div KECCAK1600_LANE_BYTES,
                 !.msg_off = 0, !.block_off = 0, !.ai = 0,
                 !.pc = "absorb_blocks"]

\* Faulty variant: st left as the storage was found, without = { 0 }.
oneshot_enter_keep(t, lc) ==
    LET st == IF lc THEN [t.st EXCEPT ![1] = LaneOnes, ![2] = LaneOnes,
                                      ![8] = LaneOnes, ![12] = LaneOnes,
                                      ![17] = LaneOnes, ![20] = LaneOnes]
              ELSE t.st
        capacity_bytes == 2 * t.md_len
        rate_bytes == KECCAK1600_STATE_SIZE - capacity_bytes
    IN [t EXCEPT !.st = st, !.lc_reads = @ \cup {lc},
                 !.capacity_bytes = capacity_bytes,
                 !.rate_bytes = rate_bytes,
                 !.num_blocks = t.msg_len \div rate_bytes,
                 !.lanes_per_block = rate_bytes \div KECCAK1600_LANE_BYTES,
                 !.msg_off = 0, !.block_off = 0, !.ai = 0,
                 !.pc = "absorb_blocks"]

\* keccakf1600_oneshot up to the call of keccakf1600_absorb, and the
\* declarations of keccakf1600_absorb.
oneshot_enter(t, lc) ==
    LET st == IF lc THEN [ZeroLanes EXCEPT ![1] = LaneOnes, ![2] = LaneOnes,
                                           ![8] = LaneOnes, ![12] = LaneOnes,
                                           ![17] = LaneOnes, ![20] = LaneOnes]
              ELSE ZeroLanes
        capacity_bytes == 2 * t.md_len
        rate_bytes == KECCAK1600_STATE_SIZE - capacity_bytes
    IN [t EXCEPT !.st = st, !.lc_reads = @ \cup {lc},
                 !.capacity_bytes = capacity_bytes,
                 !.rate_bytes = rate_bytes,
                 !.num_blocks = t.msg_len \div rate_bytes,
                 !.lanes_per_block = rate_bytes \div KECCAK1600_LANE_BYTES,
                 !.msg_off = 0, !.block_off = 0, !.ai = 0,
                 !.pc = "absorb_blocks"]

\* for (i = 0; i < num_blocks; i++) keccakf1600_absorb_lanes(...);
absorb_blocks(t, fn) ==
    IF t.ai < t.num_blocks
    THEN keccakf1600_absorb_lanes(t, fn)
    ELSE [t EXCEPT !.ai = t.msg_off, !.pc = "absorb_rest"]

\* for (i = msg_off; i < msg_len; i++) { ... } : one remaining byte.
absorb_rest(t, fn) ==
    IF t.ai < t.msg_len
    THEN LET u == [t EXCEPT !.st = XorByte(@, t.block_off, t.msg[t.ai + 1]),
                            !.block_off = @ + 1, !.ai = @ + 1]
         IN IF u.block_off = t.rate_bytes
            THEN permute_call(u, fn, "absorb_wrap")
            ELSE u
    ELSE [t EXCEPT !.pc = "pad"]

\* block_off = 0;  after the permutation of a block filled byte by byte.
absorb_wrap(t) == [t EXCEPT !.block_off = 0, !.pc = "absorb_rest"]

\* Faulty variant: the delimiter absorbed, the extra permutation never taken.
absorb_delim_never(t, fn) ==
    [t EXCEPT !.st = XorByte(@, t.block_off, t.delim_suffix),
              !.delim_off = t.block_off, !.pc = "pad_final"]

\* Faulty variant: the extra permutation taken whenever the delimiter
\* falls into the last byte of a block, whatever its high bit.
absorb_delim_always(t, fn) ==
    LET u == [t EXCEPT !.st = XorByte(@, t.block_off, t.delim_suffix),
                       !.delim_off = t.block_off]
    IN IF t.block_off = t.rate_bytes - 1
       THEN permute_call(u, fn, "pad_final")
       ELSE [u EXCEPT !.pc = "pad_final"]

\* st->A_bytes[block_off] ^= delim_suffix;  and the permutation taken when
\* the delimiter carries the first padding bit into the last byte of a block.
absorb_delim(t, fn) ==
    LET u == [t EXCEPT !.st = XorByte(@, t.block_off, t.delim_suffix),
                       !.delim_off = t.block_off]
    IN IF (t.delim_suffix \div 128) % 2 = 1 /\ t.block_off = t.rate_bytes - 1
       THEN permute_call(u, fn, "pad_final")
       ELSE [u EXCEPT !.pc = "pad_final"]

\* Faulty variant: the final padding bit left out.
absorb_final_nopad(t, fn) ==
    permute_call([t EXCEPT !.pad_off = t.rate_bytes - 1], fn, "squeeze_enter")

\* Faulty variant: the final padding bit put one byte further, at rate_bytes.
absorb_final_over(t, fn) ==
    permute_call([t EXCEPT !.st = XorByte(@, t.rate_bytes, 128),
                           !.pad_off = t.rate_bytes],
                 fn, "squeeze_enter")

\* st->A_bytes[rate_bytes - 1] ^= 0x80; keccakf1600_state_permute(st);  and,
\* on its return, the declarations of keccakf1600_squeeze.
absorb_final(t, fn) ==
    permute_call([t EXCEPT !.st = XorByte(@, t.rate_bytes - 1, 128),
                           !.pad_off = t.rate_bytes - 1],
                 fn, "squeeze_enter")

squeeze_enter(t) ==
    LET capacity_bytes == 2 * t.md_len
    IN [t EXCEPT !.s_capacity_bytes = capacity_bytes,
                 !.s_rate_bytes = squeeze_rate_bytes(capacity_bytes),
                 !.block_len = 0, !.md_off = 0, !.si = t.md_len,
                 !.pc = "squeeze"]

\* while (i > 0) { ... }
squeeze(t, fn, lc) ==
    IF t.si > 0 THEN squeeze_block(t, fn, lc) ELSE [t EXCEPT !.pc = "done"]

\* One step of a digest call while the selector holds (fn, lc).
Step(t, fn, lc) ==
    CASE t.pc = "enter" -> oneshot_enter(t, lc)
      [] t.pc = "absorb_blocks" -> absorb_blocks(t, fn)
      [] t.pc = "absorb_rest" -> absorb_rest(t, fn)
      [] t.pc = "absorb_wrap" -> absorb_wrap(t)
      [] t.pc = "pad" -> absorb_delim(t, fn)
      [] t.pc = "pad_final" -> absorb_final(t, fn)
      [] t.pc = "squeeze_enter" -> squeeze_enter(t)
      [] t.pc = "squeeze" -> squeeze(t, fn, lc)
      [] t.pc = "permute" -> permute_step(t)

\* n steps of a call, or as many as it takes to return when that is fewer.
RECURSIVE RunSteps(_, _, _, _)
RunSteps(t, n, fn, lc) ==
    IF n = 0 \/ t.pc = "done" THEN t
    ELSE IF n = 1 THEN Step(t, fn, lc)
    ELSE RunSteps(RunSteps(t, n \div 2, fn, lc), n - (n \div 2), fn, lc)

\* A whole call, run without interruption.
RECURSIVE RunToEnd(_, _, _)
RunToEnd(t, fn, lc) ==
    IF t.pc = "done" THEN t ELSE RunToEnd(RunSteps(t, 64, fn, lc), fn, lc)

\* keccakf1600_oneshot, sha3_oneshot and the two entry points.
keccakf1600_oneshot(msg, msg_len, md_size, md_len, delim_suffix, fn, lc) ==
    RunToEnd(CallInit(msg, msg_len, md_size, md_len, delim_suffix), fn, lc)

sha3_oneshot(msg, msg_len, md_size, md_len, fn, lc) ==
    keccakf1600_oneshot(msg, msg_len, md_size, md_len, 6, fn, lc)

sha3_256_oneshot(msg, msg_len, md_size, fn, lc) ==
    sha3_oneshot(msg, msg_len, md_size, 32, fn, lc)

sha3_512_oneshot(msg, msg_len, md_size, fn, lc) ==
    sha3_oneshot(msg, msg_len, md_size, 64, fn, lc)

\* The digest a finished call left in the first md_len bytes of md.
Digest(t) == [k \in 1 .. t.md_len |-> t.md[k - 1]]

-----------------------------------------------------------------------------
(* Messages and the FIPS 202 known answers (bytes in decimal, the hex      *)
(* string as printed by sha3_test.c above each).                           *)

Fill(n, b) == [k \in 1 .. n |-> b]          \* n bytes of b
MsgEmpty == << >>                           \* ""
MsgAbc == <<97, 98, 99>>                    \* "abc"
MsgTest == <<116, 101, 115, 116>>           \* "test"

\* a7ffc6f8bf1ed76651c14756a061d662f580ff4de43b49fa82d80a4b80f8434a
KAT256_empty ==
    << 167, 255, 198, 248, 191,  30, 215, 102,  81, 193,  71,  86, 160,  97, 214,  98,
       245, 128, 255,  77, 228,  59,  73, 250, 130, 216,  10,  75, 128, 248,  67,  74 >>

\* 3a985da74fe225b2045c172d6bd390bd855f086e3e9d525b46bfe24511431532
KAT256_abc ==
    <<  58, 152,  93, 167,  79, 226,  37, 178,   4,  92,  23,  45, 107, 211, 144, 189,
       133,  95,   8, 110,  62, 157,  82,  91,  70, 191, 226,  69,  17,  67,  21,  50 >>

\* a69f73cca23a9ac5c8b567dc185a756e97c982164fe25859e0d1dcc1475c80a6
KAT512_empty_prefix ==
    << 166, 159, 115, 204, 162,  58, 154, 197, 200, 181, 103, 220,  24,  90, 117, 110,
       151, 201, 130,  22,  79, 226,  88,  89, 224, 209, 220, 193,  71,  92, 128, 166 >>

\* b751850b1a57168a5693cd924b6b096e08f621827444f70d884f5d0240d2712e
KAT512_abc_prefix ==
    << 183,  81, 133,  11,  26,  87,  22, 138,  86, 147, 205, 146,  75, 107,   9, 110,
         8, 246,  33, 130, 116,  68, 247,  13, 136,  79,  93,   2,  64, 210, 113,  46 >>

\* SHA3-256 of 135 bytes of 0x61
\* 8094bb53c44cfb1e67b7c30447f9a1c33696d2463ecc1d9c92538913392843c9
KAT256_a135 ==
    << 128, 148, 187,  83, 196,  76, 251,  30, 103, 183, 195,   4,  71, 249, 161, 195,
        54, 150, 210,  70,  62, 204,  29, 156, 146,  83, 137,  19,  57,  40,  67, 201 >>

\* SHA3-256 of 136 bytes of 0x61
\* 3fc5559f14db8e453a0a3091edbd2bc25e11528d81c66fa570a4efdcc2695ee1
KAT256_a136 ==
    <<  63, 197,  85, 159,  20, 219, 142,  69,  58,  10,  48, 145, 237, 189,  43, 194,
        94,  17,  82, 141, 129, 198, 111, 165, 112, 164, 239, 220, 194, 105,  94, 225 >>

\* SHA3-256 of 137 bytes of 0x61
\* f8d6846cedd2ccfadf15c5879ef95af724d799eed7391fb1c91f95344e738614
KAT256_a137 ==
    << 248, 214, 132, 108, 237, 210, 204, 250, 223,  21, 197, 135, 158, 249,  90, 247,
        36, 215, 153, 238, 215,  57,  31, 177, 201,  31, 149,  52,  78, 115, 134,  20 >>

-----------------------------------------------------------------------------
(* Bounds, and the values of the variables a specification does not use.   *)

MdGuard == 8     \* bytes of the caller's memory modelled past the digest
MaxCalls == 2    \* digest calls of a client that keeps its buffers
MaxRamp == 2     \* longest message of varying bytes
NumSeeds == 5    \* test states of the permutation bench

Ramp(n) == [k \in 1 .. n |-> ((k * 37) + n) % 256]

NoSet == [f |-> "none", lc |-> 0]
NoTests == [k |-> 0, set |-> FALSE]
NoInput == [msg |-> << >>, md_len |-> 0]
NoDigests == << >>
NoPerm == [S |-> ZeroLanes, turn |-> 0, run |-> << >>]
NoThreads == << >>

-----------------------------------------------------------------------------
(* The selector: keccakf1600_set_permutation_function *)

\* Faulty variant: a set that can raise the flag but never lowers it.
set_use_lc_sticky(lc, old) == IF lc # 0 THEN TRUE ELSE old

\* if (lc) use_lc = true; else use_lc = false;
set_use_lc(lc, old) == IF lc # 0 THEN TRUE ELSE FALSE

\* keccakf1600_set_permutation_function(f, lc), called between digests.
SetPermutationFunction(f, lc) ==
    /\ call.pc = "idle"
    /\ func' = f
    /\ use_lc' = set_use_lc(lc, use_lc)
    /\ lastSet' = [f |-> f, lc |-> lc]
    /\ UNCHANGED <<call, tests, input, digests, perm, thr, frames>>

-----------------------------------------------------------------------------
(* Spec: a client of the API that sets the strategy and takes digests, in  *)
(* any order, starting from the state of the statics at program start.     *)

ApiMessages == {MsgEmpty, MsgAbc, Fill(137, 97)}
LcArgs == {0, 1, 2}

Init ==
    /\ func = "stub"
    /\ use_lc = FALSE
    /\ lastSet = NoSet
    /\ call = NoCall
    /\ tests = NoTests
    /\ input = NoInput
    /\ digests = NoDigests
    /\ perm = NoPerm
    /\ thr = NoThreads
    /\ frames = NoThreads

\* sha3_256_oneshot(msg, msg_len, md), run to its return; input is the
\* client's own record of what it passed.
Sha3_256(msg) ==
    /\ call.pc = "idle"
    /\ call' = sha3_256_oneshot(msg, Len(msg), 32 + MdGuard, func, use_lc)
    /\ input' = [msg |-> msg, md_len |-> 32]
    /\ UNCHANGED <<func, use_lc, lastSet, tests, digests, perm, thr, frames>>

\* sha3_512_oneshot(msg, msg_len, md), run to its return.
Sha3_512(msg) ==
    /\ call.pc = "idle"
    /\ call' = sha3_512_oneshot(msg, Len(msg), 64 + MdGuard, func, use_lc)
    /\ input' = [msg |-> msg, md_len |-> 64]
    /\ UNCHANGED <<func, use_lc, lastSet, tests, digests, perm, thr, frames>>

\* The client has read the digest and drops the buffers.
Return ==
    /\ call.pc = "done"
    /\ call' = NoCall
    /\ input' = NoInput
    /\ UNCHANGED <<func, use_lc, lastSet, tests, digests, perm, thr, frames>>

Next ==
    \/ \E f \in Strategies, lc \in LcArgs : SetPermutationFunction(f, lc)
    \/ \E msg \in ApiMessages : Sha3_256(msg)
    \/ \E msg \in ApiMessages : Sha3_512(msg)
    \/ Return

Spec == Init /\ [][Next]_vars

-----------------------------------------------------------------------------
(* SpecMain: main() of sha3_test.c.  It installs the strategies one after  *)
(* the other and hashes the same input under each; the input is chosen at  *)
(* the start.                                                              *)

MainStrategies ==
    << [f |-> "ref", lc |-> 0], [f |-> "compact", lc |-> 0],
       [f |-> "inplaceur", lc |-> 0], [f |-> "intermediateur", lc |-> 0],
       [f |-> "intermediateur_ep", lc |-> 0], [f |-> "intermediateur_lc", lc |-> 1] >>

MainMessages ==
    {MsgEmpty, MsgAbc, MsgTest, SubSeq(MsgTest, 1, 3)}
        \cup {Fill(n, 97) : n \in {71, 72, 73, 135, 136, 137}}
        \cup {Ramp(n) : n \in 1 .. MaxRamp}

InitMain ==
    /\ func = "stub"
    /\ use_lc = FALSE
    /\ lastSet = NoSet
    /\ call = NoCall
    /\ tests = NoTests
    /\ input \in [msg : MainMessages, md_len : {32, 64}]
    /\ digests = NoDigests
    /\ perm = NoPerm
    /\ thr = NoThreads
    /\ frames = NoThreads

\* keccakf1600_set_permutation_function(&keccakf1600_state_permute_X, lc);
MainSet ==
    /\ tests.k < Len(MainStrategies)
    /\ ~tests.set
    /\ func' = MainStrategies[tests.k + 1].f
    /\ use_lc' = set_use_lc(MainStrategies[tests.k + 1].lc, use_lc)
    /\ lastSet' = MainStrategies[tests.k + 1]
    /\ tests' = [tests EXCEPT !.set = TRUE]
    /\ UNCHANGED <<call, input, digests, perm, thr, frames>>

\* One digest of sha3_test() under the strategy just installed.
MainTest ==
    /\ tests.set
    /\ call' = IF input.md_len = 32
               THEN sha3_256_oneshot(input.msg, Len(input.msg), 32 + MdGuard, func, use_lc)
               ELSE sha3_512_oneshot(input.msg, Len(input.msg), 64 + MdGuard, func, use_lc)
    /\ digests' = Append(digests, Digest(call'))
    /\ tests' = [k |-> tests.k + 1, set |-> FALSE]
    /\ UNCHANGED <<func, use_lc, lastSet, input, perm, thr, frames>>

NextMain ==
    \/ MainSet
    \/ MainTest

SpecMain == InitMain /\ [][NextMain]_vars

-----------------------------------------------------------------------------
(* SpecPerm: the permutation entry points on their own.  Every strategy is *)
(* called on the same state S and the calls advance one round at a time,   *)
(* in turn.                                                                *)

StrategyOrder ==
    <<"ref", "compact", "inplaceur", "intermediateur", "intermediateur_ep",
      "intermediateur_lc">>

\* The P mask: lanes 1, 2, 8, 12, 17 and 20 inverted.
LcMask(A) ==
    [A EXCEPT ![1] = Not(@), ![2] = Not(@), ![8] = Not(@), ![12] = Not(@),
              ![17] = Not(@), ![20] = Not(@)]

\* Test states: all zero, then lanes with a bit pattern that differs from
\* lane to lane and from seed to seed.
PatternLane(seed, k) ==
    {b \in LaneBits : ((b * (seed + 2)) + (k * (seed + 3)) + seed) % 5 < 2}

RECURSIVE PatternLanes(_, _)
PatternLanes(seed, n) ==
    IF n = 0 THEN << >>
    ELSE PatternLanes(seed, n - 1) @@ ((n - 1) :> PatternLane(seed, n - 1))

TestState(seed) ==
    IF seed = 0 THEN ZeroLanes ELSE PatternLanes(seed, KECCAK_NUM_LANES)

\* A caller about to call the entry point s on the state S: the lane
\* complementing entry point is given the masked state.
BenchCall(s, S) ==
    [k |-> 0, ops |-> << >>] @@
    [CallInit(<< >>, 0, 0, 0, 0) EXCEPT
        !.pc = "bench", !.st = IF s = "intermediateur_lc" THEN LcMask(S) ELSE S]

InitPerm ==
    /\ func = "stub"
    /\ use_lc = FALSE
    /\ lastSet = NoSet
    /\ call = NoCall
    /\ tests = NoTests
    /\ input = NoInput
    /\ digests = NoDigests
    /\ \E seed \in 0 .. (NumSeeds - 1) :
           perm = [S |-> TestState(seed), turn |-> 1,
                   run |-> [s \in Strategies |-> BenchCall(s, TestState(seed))]]
    /\ thr = NoThreads
    /\ frames = NoThreads

NextTurn(k) == (k % Len(StrategyOrder)) + 1

\* keccakf1600_state_permute_<s>(st): the call.
PermEnter(s) ==
    /\ StrategyOrder[perm.turn] = s
    /\ perm.run[s].pc = "bench"
    /\ perm' = [perm EXCEPT !.run[s] = permute_call(@, s, "done"),
                            !.turn = NextTurn(@)]
    /\ UNCHANGED <<func, use_lc, lastSet, call, tests, input, digests, thr, frames>>

\* The entry points followed call by call inside a round.
LoopStrategies == {"ref", "compact"}

\* keccakf1600_state_permute_<s>(st): one call of the loop body; the turn
\* passes on when the round is complete.
PermStmt(s) ==
    /\ StrategyOrder[perm.turn] = s
    /\ s \in LoopStrategies
    /\ perm.run[s].pc = "permute"
    /\ perm' = [perm EXCEPT !.run[s] = permute_stmt(@),
                            !.turn = IF perm.run[s].k + 1 = Len(permute_body)
                                     THEN NextTurn(@) ELSE @]
    /\ UNCHANGED <<func, use_lc, lastSet, call, tests, input, digests, thr, frames>>

\* keccakf1600_state_permute_<s>(st): one round.
PermRound(s) ==
    /\ StrategyOrder[perm.turn] = s
    /\ s \notin LoopStrategies
    /\ perm.run[s].pc = "permute"
    /\ perm' = [perm EXCEPT !.run[s] = permute_step(@), !.turn = NextTurn(@)]
    /\ UNCHANGED <<func, use_lc, lastSet, call, tests, input, digests, thr, frames>>

NextPerm ==
    \/ \E s \in Strategies : PermEnter(s)
    \/ \E s \in Strategies : PermStmt(s)
    \/ \E s \in Strategies : PermRound(s)

SpecPerm == InitPerm /\ [][NextPerm]_vars

-----------------------------------------------------------------------------
(* SpecConc: digest calls running at the same time, interleaved step by    *)
(* step (a byte absorbed, a round permuted), while nobody calls set.  The  *)
(* automatic storage of call p (st of keccakf1600_oneshot, N and C of the  *)
(* permutation entry point) is frames[Slot(p)]; thr[p] is the rest of the  *)
(* call.                                                                   *)

Threads == {1, 2}

\* Faulty variant: one static storage area for all calls.
SharedSlot(p) == 1

\* The storage of call p: automatic variables live in the caller's own stack.
Slot(p) == p

Sto(t) == [st |-> t.st, N |-> t.N, C |-> t.C]
Ctl(t) == [t EXCEPT !.st = ZeroLanes, !.N = ZeroLanes, !.C = ZeroCols]
Join(c, s) == [c EXCEPT !.st = s.st, !.N = s.N, !.C = s.C]

ConcMsg(p) == Ramp(p - 1)
ConcMdLen(p) == IF p % 2 = 1 THEN 32 ELSE 64

ConcCall(p, fn, lc) ==
    LET c == CallInit(ConcMsg(p), Len(ConcMsg(p)), ConcMdLen(p) + MdGuard, ConcMdLen(p), 6)
    IN [c EXCEPT !.alone = Digest(RunToEnd(c, fn, lc))]

InitConc ==
    /\ lastSet \in {MainStrategies[k] : k \in 1 .. Len(MainStrategies)}
    /\ func = lastSet.f
    /\ use_lc = (lastSet.lc # 0)
    /\ call = NoCall
    /\ tests = NoTests
    /\ input = NoInput
    /\ digests = NoDigests
    /\ perm = NoPerm
    /\ thr = [p \in Threads |-> Ctl(ConcCall(p, func, use_lc))]
    /\ frames = [q \in Threads |-> Sto(CallInit(<< >>, 0, 0, 0, 0))]

\* One step of call p.
ConcStep(p) ==
    /\ thr[p].pc # "done"
    /\ LET u == Step(Join(thr[p], frames[Slot(p)]), func, use_lc)
       IN /\ thr' = [thr EXCEPT ![p] = Ctl(u)]
          /\ frames' = [frames EXCEPT ![Slot(p)] = Sto(u)]
    /\ UNCHANGED <<func, use_lc, lastSet, call, tests, input, digests, perm>>

NextConc == \E p \in Threads : ConcStep(p)

SpecConc == InitConc /\ [][NextConc]_vars

-----------------------------------------------------------------------------
(* SpecLen: the int locals of keccakf1600_absorb for a message of any      *)
(* length a size_t holds.  Only the counters are kept, the bytes are not;  *)
(* the two loops advance by a run of iterations at a time.  A size_t is    *)
(* four 16-bit words, most significant first; an int is a 32-bit integer.  *)
(* Signed overflow is undefined: the build either traps or wraps.          *)

INT_MAX == 2147483647

\* The whole of a size_t divided by a positive int (the int is converted to
\* size_t), word by word.
SizeDiv(n, d) ==
    LET r3 == n[1] % d
        r2 == ((r3 * 65536) + n[2]) % d
        r1 == ((r2 * 65536) + n[3]) % d
    IN << n[1] \div d, ((r3 * 65536) + n[2]) \div d,
          ((r2 * 65536) + n[3]) \div d, ((r1 * 65536) + n[4]) \div d >>

\* int x = <size_t>: the low 32 bits, read as two's complement.
SizeToInt(n) ==
    IF n[3] < 32768 THEN (n[3] * 65536) + n[4]
    ELSE ((n[3] - 65536) * 65536) + n[4]

\* An int converted to size_t, as the comparison i < msg_len converts i.
IntToSize(i) ==
    IF i >= 0 THEN << 0, 0, i \div 65536, i % 65536 >>
    ELSE << 65535, 65535, (i \div 65536) + 65536, i % 65536 >>

\* a < b on size_t.
SizeLt(a, b) ==
    \E k \in 1 .. 4 : a[k] < b[k] /\ \A j \in 1 .. (k - 1) : a[j] = b[j]

\* i + 1 and x + n on int where the sum passes INT_MAX, as a wrapping build
\* computes them.
IntWrapAdd(x, n) == ((x - INT_MAX) - 1) + ((n - INT_MAX) - 1)

\* The lengths of a run of iterations.
Strides == {2 ^ k : k \in 0 .. 30}

\* keccakf1600_absorb called with (msg_len, md_len), its locals not yet
\* declared; ub records the variables that overflowed.
LenCall(msg_len, md_len) ==
    [pc |-> "enter", msg_len |-> msg_len, md_len |-> md_len,
     capacity_bytes |-> 0, rate_bytes |-> 0, num_blocks |-> 0,
     lanes_per_block |-> 0, msg_off |-> 0, block_off |-> 0, ai |-> 0, ub |-> {}]

LenLengths ==
    { <<0, 0, 0, 0>>, <<0, 0, 0, 71>>, <<0, 0, 0, 136>>, <<0, 0, 0, 137>>,
      <<0, 0, 1, 0>>, <<0, 0, 256, 255>>,
      <<0, 0, 32767, 65535>>,      \* INT_MAX
      <<0, 0, 32768, 0>>,          \* INT_MAX + 1
      <<0, 0, 32768, 136>>,
      <<0, 1, 0, 0>>,              \* 2^32
      <<0, 136, 0, 0>>,            \* 136 * 2^32
      <<65535, 65535, 65535, 65535>> }   \* SIZE_MAX

InitLen ==
    /\ func = "ref"
    /\ use_lc = FALSE
    /\ lastSet = [f |-> "ref", lc |-> 0]
    /\ call \in {LenCall(n, L) : n \in LenLengths, L \in {32, 64}}
    /\ tests = NoTests
    /\ input = NoInput
    /\ digests = NoDigests
    /\ perm = NoPerm
    /\ thr = NoThreads
    /\ frames = NoThreads

\* The declarations of keccakf1600_absorb.
LenEnter ==
    /\ call.pc = "enter"
    /\ LET capacity_bytes == 2 * call.md_len
           rate_bytes == KECCAK1600_STATE_SIZE - capacity_bytes
       IN call' = [call EXCEPT
                      !.capacity_bytes = capacity_bytes,
                      !.rate_bytes = rate_bytes,
                      !.num_blocks = SizeToInt(SizeDiv(call.msg_len, rate_bytes)),
                      !.lanes_per_block = rate_bytes \div KECCAK1600_LANE_BYTES,
                      !.msg_off = 0, !.block_off = 0, !.ai = 0,
                      !.pc = "blocks"]
    /\ UNCHANGED <<func, use_lc, lastSet, tests, input, digests, perm, thr, frames>>

\* The blocks msg_off can still pass without leaving int.
LenRoom(msg_off, rate_bytes) ==
    IF msg_off < 0 THEN INT_MAX \div rate_bytes
    ELSE (INT_MAX - msg_off) \div rate_bytes

\* n iterations of the loop over the blocks, the longest run that fits.
LenBlocks(n) ==
    /\ call.pc = "blocks"
    /\ call.ai < call.num_blocks
    /\ n <= call.num_blocks - call.ai
    /\ n <= LenRoom(call.msg_off, call.rate_bytes)
    /\ \A m \in Strides :
           (m <= call.num_blocks - call.ai /\ m <= LenRoom(call.msg_off, call.rate_bytes))
               => m <= n
    /\ call' = [call EXCEPT !.ai = @ + n,
                            !.msg_off = @ + (n * (KECCAK1600_LANE_BYTES * call.lanes_per_block))]
    /\ UNCHANGED <<func, use_lc, lastSet, tests, input, digests, perm, thr, frames>>

\* The block in which (*msg_off) += KECCAK1600_LANE_BYTES passes INT_MAX.
LenBlocksOverflow ==
    /\ call.pc = "blocks"
    /\ call.ai < call.num_blocks
    /\ LenRoom(call.msg_off, call.rate_bytes) = 0
    /\ \/ call' = [call EXCEPT !.pc = "trap", !.ub = @ \cup {"msg_off"}]
       \/ call' = [call EXCEPT !.ai = @ + 1, !.ub = @ \cup {"msg_off"},
                               !.msg_off = IntWrapAdd(@, call.rate_bytes)]
    /\ UNCHANGED <<func, use_lc, lastSet, tests, input, digests, perm, thr, frames>>

\* The loop over the blocks ends; i = msg_off.
LenBlocksEnd ==
    /\ call.pc = "blocks"
    /\ ~(call.ai < call.num_blocks)
    /\ call' = [call EXCEPT !.ai = call.msg_off, !.pc = "rest"]
    /\ UNCHANGED <<func, use_lc, lastSet, tests, input, digests, perm, thr, frames>>

\* n iterations of the loop over the remaining bytes, the longest run that
\* fits: i advances by n and block_off wraps at rate_bytes.
LenRestFits(n) ==
    /\ n <= (IF call.ai < 0 THEN INT_MAX ELSE INT_MAX - call.ai)
    /\ SizeLt(IntToSize(call.ai + (n - 1)), call.msg_len)

LenRest(n) ==
    /\ call.pc = "rest"
    /\ SizeLt(IntToSize(call.ai), call.msg_len)
    /\ LenRestFits(n)
    /\ \A m \in Strides : LenRestFits(m) => m <= n
    /\ call' = [call EXCEPT !.ai = @ + n,
                            !.block_off = (@ + n) % call.rate_bytes]
    /\ UNCHANGED <<func, use_lc, lastSet, tests, input, digests, perm, thr, frames>>

\* The iteration in which i++ passes INT_MAX.
LenRestOverflow ==
    /\ call.pc = "rest"
    /\ SizeLt(IntToSize(call.ai), call.msg_len)
    /\ call.ai = INT_MAX
    /\ \/ call' = [call EXCEPT !.pc = "trap", !.ub = @ \cup {"i"}]
       \/ call' = [call EXCEPT !.ai = IntWrapAdd(@, 1), !.ub = @ \cup {"i"},
                               !.block_off = (@ + 1) % call.rate_bytes]
    /\ UNCHANGED <<func, use_lc, lastSet, tests, input, digests, perm, thr, frames>>

\* The loop over the remaining bytes ends: the padding follows.
LenRestEnd ==
    /\ call.pc = "rest"
    /\ ~SizeLt(IntToSize(call.ai), call.msg_len)
    /\ call' = [call EXCEPT !.pc = "pad"]
    /\ UNCHANGED <<func, use_lc, lastSet, tests, input, digests, perm, thr, frames>>

NextLen ==
    \/ LenEnter
    \/ \E n \in Strides : LenBlocks(n)
    \/ LenBlocksOverflow
    \/ LenBlocksEnd
    \/ \E n \in Strides : LenRest(n)
    \/ LenRestOverflow
    \/ LenRestEnd

SpecLen == InitLen /\ [][NextLen]_vars

-----------------------------------------------------------------------------
(* SpecStep: one call of keccakf1600_oneshot followed step by step (a      *)
(* block or a byte absorbed, a round permuted, a block squeezed) under a   *)
(* selector set before the call.  The sha3 entry points pass delimiter     *)
(* 0x06; keccakf1600_oneshot is also called directly with another one.     *)

StepInputs ==
    { [msg |-> MsgEmpty, md_len |-> 32, delim |-> 6],
      [msg |-> Ramp(273), md_len |-> 32, delim |-> 6],
      [msg |-> Ramp(145), md_len |-> 64, delim |-> 6],
      [msg |-> Ramp(72), md_len |-> 64, delim |-> 6],
      [msg |-> Ramp(71), md_len |-> 64, delim |-> 6],
      [msg |-> Ramp(71), md_len |-> 64, delim |-> 134],
      [msg |-> Ramp(70), md_len |-> 64, delim |-> 134],
      [msg |-> MsgAbc, md_len |-> 20, delim |-> 6],
      [msg |-> MsgAbc, md_len |-> 72, delim |-> 6],
      [msg |-> MsgAbc, md_len |-> 80, delim |-> 31] }

InitStep ==
    /\ lastSet \in {MainStrategies[k] : k \in 1 .. Len(MainStrategies)}
    /\ func = lastSet.f
    /\ use_lc = (lastSet.lc # 0)
    /\ input \in StepInputs
    /\ call = CallInit(input.msg, Len(input.msg), input.md_len + MdGuard,
                       input.md_len, input.delim)
    /\ tests = NoTests
    /\ digests = NoDigests
    /\ perm = NoPerm
    /\ thr = NoThreads
    /\ frames = NoThreads

\* One step of the call.
StepCall ==
    /\ call.pc # "done"
    /\ call' = Step(call, func, use_lc)
    /\ UNCHANGED <<func, use_lc, lastSet, tests, input, digests, perm, thr, frames>>

NextStep == StepCall

SpecStep == InitStep /\ [][NextStep]_vars

-----------------------------------------------------------------------------
(* SpecReuse: a client that, like sha3_test, keeps one buffer per digest   *)
(* length and passes it to every call, with set calls in between.          *)
(* digests[n] is the buffer of the digests of n bytes as the last call     *)
(* left it; a call finds in its automatic storage what the call before it  *)
(* left there; tests.k counts the digest calls made.                       *)

ReuseInputs ==
    { [msg |-> MsgEmpty, md_len |-> 32], [msg |-> MsgAbc, md_len |-> 32],
      [msg |-> MsgAbc, md_len |-> 64] }

InitReuse ==
    /\ func = "stub"
    /\ use_lc = FALSE
    /\ lastSet = NoSet
    /\ call = NoCall
    /\ tests = NoTests
    /\ input = NoInput
    /\ digests = [n \in {32, 64} |-> FreshMd(n + MdGuard)]
    /\ perm = NoPerm
    /\ thr = NoThreads
    /\ frames = NoThreads

\* sha3_256_oneshot or sha3_512_oneshot(in.msg, Len(in.msg), md), run to its
\* return, md being the client's buffer for that length.
ReuseDigest(in) ==
    /\ call.pc = "idle"
    /\ tests.k < MaxCalls
    /\ call' = RunToEnd([CallInit(in.msg, Len(in.msg), in.md_len + MdGuard, in.md_len, 6)
                            EXCEPT !.md = digests[in.md_len],
                                   !.st = call.st, !.N = call.N, !.C = call.C],
                        func, use_lc)
    /\ digests' = [digests EXCEPT ![in.md_len] = call'.md]
    /\ input' = in
    /\ tests' = [tests EXCEPT !.k = @ + 1]
    /\ UNCHANGED <<func, use_lc, lastSet, perm, thr, frames>>

\* The client has read the digest; the storage stays as the call left it.
ReuseReturn ==
    /\ call.pc = "done"
    /\ call' = [call EXCEPT !.pc = "idle"]
    /\ UNCHANGED <<func, use_lc, lastSet, tests, input, digests, perm, thr, frames>>

NextReuse ==
    \/ \E m \in {MainStrategies[1], MainStrategies[Len(MainStrategies)]} :
           SetPermutationFunction(m.f, m.lc)
    \/ \E in \in ReuseInputs : ReuseDigest(in)
    \/ ReuseReturn

SpecReuse == InitReuse /\ [][NextReuse]_vars

-----------------------------------------------------------------------------
(* SpecSqueeze: a digest call followed step by step through absorb and     *)
(* squeeze, for every digest length that leaves a rate on the empty         *)
(* message, and for two messages that reach past a block at a rate that is  *)
(* not a whole number of lanes (2 and 140 bytes).                           *)
(* As in SpecConc the automatic storage (st, N, C) is frames[1] and call is *)
(* the rest of the call, so that the progress of the call is a condition on *)
(* call alone.                                                              *)

InitSqueeze ==
    /\ lastSet \in {MainStrategies[1], MainStrategies[Len(MainStrategies)]}
    /\ func = lastSet.f
    /\ use_lc = (lastSet.lc # 0)
    /\ \/ \E md_len \in 1 .. ((KECCAK1600_STATE_SIZE \div 2) - 1) :
              input = [msg |-> MsgEmpty, md_len |-> md_len, delim |-> 6]
       \/ input = [msg |-> MsgAbc, md_len |-> 99, delim |-> 6]
       \/ input = [msg |-> Ramp(144), md_len |-> 30, delim |-> 6]
    /\ call = Ctl(CallInit(input.msg, Len(input.msg), input.md_len + MdGuard,
                            input.md_len, input.delim))
    /\ frames = [q \in {1} |-> Sto(CallInit(<< >>, 0, 0, 0, 0))]
    /\ tests = NoTests
    /\ digests = NoDigests
    /\ perm = NoPerm
    /\ thr = NoThreads

\* One step of the call: a step of absorb, an iteration of the loop of
\* squeeze, a round of the permutation they called, or the return.
SqueezeStep ==
    /\ call.pc # "done"
    /\ LET u == Step(Join(call, frames[1]), func, use_lc)
       IN /\ call' = Ctl(u)
          /\ frames' = [frames EXCEPT ![1] = Sto(u)]
    /\ UNCHANGED <<func, use_lc, lastSet, tests, input, digests, perm, thr>>

\* What SqueezeStep does to call: a round of the permutation moves i and pc
\* only (permute_step), whatever the lanes hold.
SqueezeAdvance ==
    /\ call.pc # "done"
    /\ call' = IF call.pc = "permute"
               THEN [call EXCEPT !.i = call.i + 1,
                                 !.pc = IF call.i + 1 = KECCAK1600_NUM_ROUNDS
                                        THEN call.ret ELSE "permute"]
               ELSE Ctl(Step(Join(call, frames[1]), func, use_lc))

SpecSqueeze == InitSqueeze /\ [][SqueezeStep]_vars

\* The call is the only activity of its thread: it keeps advancing.
SpecSqueezeFair == SpecSqueeze /\ WF_call(SqueezeAdvance)

-----------------------------------------------------------------------------
(* SpecRotl: rotl_lane on its own, called once with a lane and a rotation  *)
(* amount (an int) that reaches below 0 and past 64 on both sides.          *)

MaxTimes == 66    \* rotation amounts run from -MaxTimes to 64 + MaxTimes

InitRotl ==
    /\ func = "stub"
    /\ use_lc = FALSE
    /\ lastSet = NoSet
    /\ tests = NoTests
    /\ digests = NoDigests
    /\ perm = NoPerm
    /\ thr = NoThreads
    /\ frames = NoThreads
    /\ input \in [val : {Lane0, LaneOnes, {0}, {KECCAK1600_LANE_BITS - 1},
                         RC(1), RC(23), PatternLane(1, 0)},
                  times : (0 - MaxTimes) .. (KECCAK1600_LANE_BITS + MaxTimes)]
    /\ call = [pc |-> "rotl", res |-> Lane0]

\* lane_t res = rotl_lane(val, times);
RotlCall ==
    /\ call.pc = "rotl"
    /\ \E res \in rotl_lane_outcomes(input.val, input.times) :
           call' = [pc |-> "returned", res |-> res]
    /\ UNCHANGED <<func, use_lc, lastSet, tests, input, digests, perm, thr, frames>>

SpecRotl == InitRotl /\ [][RotlCall]_vars

-----------------------------------------------------------------------------
(* Properties *)

\* C1: with each of the provided strategies installed through
\* keccakf1600_set_permutation_function (lc flag 1 only for the lane
\* complementing one), sha3_256_oneshot returns the FIPS 202 digests of the
\* empty message and of "abc", and sha3_512_oneshot returns digests of 64
\* bytes that begin with the FIPS 202 ones.
C1_ShortKats ==
    \A k \in 1 .. Len(digests) :
        /\ Len(digests[k]) = input.md_len
        /\ (input.msg = MsgEmpty /\ input.md_len = 32) => digests[k] = KAT256_empty
        /\ (input.msg = MsgAbc /\ input.md_len = 32) => digests[k] = KAT256_abc
        /\ (input.msg = MsgEmpty /\ input.md_len = 64) =>
               SubSeq(digests[k], 1, 32) = KAT512_empty_prefix
        /\ (input.msg = MsgAbc /\ input.md_len = 64) =>
               SubSeq(digests[k], 1, 32) = KAT512_abc_prefix

\* All six strategies have hashed "abc" with SHA3-512, the last of them being
\* the lane complementing one.
C1_Witness ==
    /\ Len(digests) = Len(MainStrategies)
    /\ input.msg = MsgAbc
    /\ input.md_len = 64
    /\ func = "intermediateur_lc"
    /\ use_lc

\* C2: for every message of the test set and both digest lengths, the digest
\* is the same under every pair of strategies (the lane complementing one
\* with lc flag 1, the others with lc flag 0).
C2_StrategiesAgree ==
    \A j, k \in 1 .. Len(digests) : digests[j] = digests[k]

\* All six strategies have hashed a message one byte longer than a SHA3-512
\* block.
C2_Witness ==
    /\ Len(digests) = Len(MainStrategies)
    /\ Len(input.msg) = 73
    /\ input.md_len = 64
    /\ call.nperm = 2

\* C3: a digest call made before any call of
\* keccakf1600_set_permutation_function returns the digest the reference
\* strategy returns for the same message.
C3_DefaultStrategyCorrect ==
    (call.pc = "done" /\ lastSet = NoSet) =>
        Digest(call) = Digest(sha3_oneshot(input.msg, Len(input.msg),
                                           input.md_len + MdGuard, input.md_len,
                                           "ref", FALSE))

\* C4: for SHA3-256 the digests of 135, 136 and 137 bytes are the FIPS 202
\* ones.  At 135 bytes nothing is absorbed as a block, delimiter and final
\* padding bit go into byte 135 and one permutation runs in all; at 136 and
\* 137 bytes one block is absorbed and permuted first, the delimiter goes
\* into byte 0, respectively 1, of the second block and the final bit into
\* byte 135, two permutations in all.
C4_BlockBoundary ==
    (call.pc = "done" /\ input.md_len = 32) =>
        /\ input.msg = Fill(135, 97) =>
               /\ Digest(call) = KAT256_a135
               /\ call.rate_bytes = 136 /\ call.num_blocks = 0
               /\ call.delim_off = 135 /\ call.pad_off = 135 /\ call.nperm = 1
        /\ input.msg = Fill(136, 97) =>
               /\ Digest(call) = KAT256_a136
               /\ call.rate_bytes = 136 /\ call.num_blocks = 1
               /\ call.delim_off = 0 /\ call.pad_off = 135 /\ call.nperm = 2
        /\ input.msg = Fill(137, 97) =>
               /\ Digest(call) = KAT256_a137
               /\ call.rate_bytes = 136 /\ call.num_blocks = 1
               /\ call.delim_off = 1 /\ call.pad_off = 135 /\ call.nperm = 2

\* The last strategy has hashed 135 bytes with the delimiter and the final
\* bit in the same byte.
C4_Witness ==
    /\ Len(digests) = Len(MainStrategies)
    /\ input.msg = Fill(135, 97)
    /\ input.md_len = 32
    /\ call.delim_off = call.pad_off

\* C6: for every test state S, the compact, in-place unrolled, intermediate
\* unrolled and early parity entry points leave st->A equal to what
\* keccakf1600_state_permute_ref leaves for S.
C6_PermutationsAgree ==
    \A s \in {"compact", "inplaceur", "intermediateur", "intermediateur_ep"} :
        (perm.run[s].pc = "done" /\ perm.run["ref"].pc = "done") =>
            perm.run[s].st = perm.run["ref"].st

\* All five entry points have returned, on a state that was not all zero.
C6_Witness ==
    /\ \A s \in Strategies \ {"intermediateur_lc"} :
           perm.run[s].pc = "done" /\ perm.run[s].i = KECCAK1600_NUM_ROUNDS
    /\ perm.S # ZeroLanes
    /\ perm.run["ref"].st # perm.S

\* C7: sha3_256_oneshot stores to exactly the offsets 0..31 of md and
\* sha3_512_oneshot to exactly 0..63, whatever the selector holds, lane
\* complementing included; the bytes of the caller's memory from the digest
\* length on keep their value and the message keeps its bytes.
C7_OutputFrame ==
    call.pc = "done" =>
        /\ call.md_len = input.md_len
        /\ call.written = 0 .. (input.md_len - 1)
        /\ DOMAIN call.md = 0 .. (input.md_len + MdGuard - 1)
        /\ \A k \in DOMAIN call.md :
               k >= input.md_len => call.md[k] = FreshMd(input.md_len + MdGuard)[k]
        /\ call.msg = input.msg

\* A SHA3-512 digest taken with lane complementing on, which un-masks lanes
\* 1 and 2 of the output.
C7_Witness ==
    /\ call.pc = "done"
    /\ use_lc
    /\ func = "intermediateur_lc"
    /\ input.md_len = 64
    /\ call.written = 0 .. 63
    /\ Len(input.msg) = 137

\* C8: after keccakf1600_set_permutation_function(f, lc) the selector holds
\* f and (lc != 0), whatever it held before; a digest taken with no set in
\* between calls only the strategy of the latest set and reads only the flag
\* of that same set.
C8_SelectorSet ==
    lastSet # NoSet =>
        /\ func = lastSet.f
        /\ use_lc = (lastSet.lc # 0)
        /\ call.pc = "done" =>
               /\ call.used = {lastSet.f}
               /\ call.lc_reads = {lastSet.lc # 0}

\* A digest taken after set(compact, 2); reaching it from the start takes
\* at least that set.
C8_Witness ==
    /\ call.pc = "done"
    /\ lastSet = [f |-> "compact", lc |-> 2]
    /\ call.used = {"compact"}
    /\ call.lc_reads = {TRUE}
    /\ call.nperm > 0

\* C9: digest calls interleaved step by step (a byte absorbed, a round
\* permuted) under an unchanged selector each return the digest the same
\* call returns when it runs alone, and no step of one call changes the
\* storage (st, N, C) of a call that did not take the step.
C9_ConcurrentDigests ==
    /\ [](\A p \in Threads :
             thr[p].pc = "done" =>
                 /\ Len(thr[p].alone) = ConcMdLen(p)
                 /\ Digest(thr[p]) = thr[p].alone)
    /\ [][\A q \in Threads :
             thr'[q] = thr[q] => frames'[Slot(q)] = frames[Slot(q)]]_vars

\* Both calls have returned under the early parity strategy, which keeps
\* st, N and C.
C9_Witness ==
    /\ \A p \in Threads : thr[p].pc = "done" /\ thr[p].nperm > 0
    /\ func = "intermediateur_ep"

\* C10: for digest length L, absorb and squeeze both take capacity 2 * L and
\* rate 200 - 2 * L, absorb takes rate / 8 lanes per block: rate 136 and 17
\* lanes for SHA3-256, 72 and 9 for SHA3-512; squeeze uses the rate absorb
\* used.
C10_RateCapacity ==
    call.pc = "done" =>
        /\ call.capacity_bytes = 2 * input.md_len
        /\ call.rate_bytes = 200 - call.capacity_bytes
        /\ call.lanes_per_block = call.rate_bytes \div 8
        /\ call.s_capacity_bytes = 2 * input.md_len
        /\ call.s_rate_bytes = call.rate_bytes
        /\ input.md_len = 32 => (call.rate_bytes = 136 /\ call.lanes_per_block = 17)
        /\ input.md_len = 64 => (call.rate_bytes = 72 /\ call.lanes_per_block = 9)

\* A SHA3-512 digest of a message longer than a block, so that absorb used
\* its lanes per block.
C10_Witness ==
    /\ call.pc = "done"
    /\ input.md_len = 64
    /\ call.num_blocks = 1
    /\ call.s_rate_bytes = 72
    /\ call.lanes_per_block = 9

\* C11: the digest is the little-endian serialization of the first md_len
\* bytes of the state the last permutation left, the lanes 1, 2, 8, 12, 17
\* and 20 taken inverted when lane complementing is on: bit b of output byte
\* 8k + j is bit 8j + b of lane k, for every lane k below md_len / 8.
C11_LittleEndianDigest ==
    call.pc = "done" =>
        \A k \in 0 .. ((input.md_len \div 8) - 1), j \in 0 .. 7 :
            BitsOf(call.md[(8 * k) + j], 8) =
                {b \in 0 .. 7 :
                    ((8 * j) + b \in call.st[k]) = ~(use_lc /\ k \in LcLanes)}

\* A SHA3-512 digest taken with lane complementing on from a permuted state
\* whose lanes 0 and 1 are neither all zero nor all one.
C11_Witness ==
    /\ call.pc = "done"
    /\ use_lc
    /\ input.md_len = 64
    /\ call.nperm > 0
    /\ call.st[0] \notin {Lane0, LaneOnes}
    /\ call.st[1] \notin {Lane0, LaneOnes}
    /\ call.md[0] # call.md[7]

\* C12: for every message length a size_t holds, the block count of
\* keccakf1600_absorb is msg_len / rate_bytes, the block count, the message
\* offset and the loop index stay within int and never turn negative, and
\* when the padding starts the loop index has passed every byte of the
\* message: it equals msg_len.
C12_LengthUnconstrained ==
    /\ call.ub = {}
    /\ call.pc # "trap"
    /\ call.pc # "enter" =>
           IntToSize(call.num_blocks) = SizeDiv(call.msg_len, call.rate_bytes)
    /\ call.num_blocks >= 0 /\ call.msg_off >= 0 /\ call.ai >= 0
    /\ call.pc = "pad" => IntToSize(call.ai) = call.msg_len

\* C13: in a call of the reference or compact entry point the calls made so
\* far are, in order, theta, rho_pi, chi, iota of round 0, then those of
\* round 1, and so on: call number n is call n mod 4 of the body and is made
\* under round index n div 4, so no call of a round is made before iota of
\* the round before; the entry point returns after exactly 24 rounds, that
\* is 96 calls, the last being iota under index 23.
C13_RoundOrder ==
    \A s \in {"ref", "compact"} :
        LET t == perm.run[s]
        IN /\ \A n \in 1 .. Len(t.ops) :
                  t.ops[n] = << <<"theta", "rho_pi", "chi", "iota">>[((n - 1) % 4) + 1],
                                (n - 1) \div 4 >>
           /\ Len(t.ops) = (4 * t.i) + t.k
           /\ t.pc = "done" <=> Len(t.ops) = 4 * 24

\* Both entry points have returned from a state that was not all zero, the
\* last call made being iota of round 23.
C13_Witness ==
    /\ \A s \in {"ref", "compact"} :
           /\ perm.run[s].pc = "done"
           /\ perm.run[s].ops[96] = <<"iota", 23>>
           /\ perm.run[s].ops[93] = <<"theta", 23>>
    /\ perm.S # ZeroLanes

\* The rotation offsets of rho by lane position, C14_RhoXY[x + 1][y + 1] for
\* the lane (x, y) (FIPS 202, table 2, modulo 64).
C14_RhoXY ==
    << << 0, 36,  3, 41, 18>>,
       << 1, 44, 10, 45,  2>>,
       <<62,  6, 43, 15, 61>>,
       <<28, 55, 25, 21, 56>>,
       <<27, 20, 39,  8, 14>> >>

\* C14: rho_pi of the reference and of the compact strategy leaves in the
\* lane (y, (2x + 3y) mod 5) the input lane (x, y) rotated left by the rho
\* offset of (x, y), for each of the 24 lanes other than (0, 0), and leaves
\* lane 0 as it was.  The cycle writes each of the lanes 1..24 exactly once
\* (the entries of pi_lane_idxes are the 24 of them), and the lane a write
\* reads, pi_lane_idxes[i - 1], is none of those the writes before it
\* (indices above i) have overwritten; the lane the last write needs, A[1],
\* is the first one overwritten.
C14_RhoPiDefinitional ==
    /\ [][\A s \in {"ref", "compact"} :
             (perm.run[s].pc = "permute" /\ perm.run[s].k = 1 /\ perm'.run[s].k = 2) =>
                 /\ perm'.run[s].st[0] = perm.run[s].st[0]
                 /\ \A x, y \in 0 .. 4 :
                        (x # 0 \/ y # 0) =>
                            perm'.run[s].st[y + (5 * (((2 * x) + (3 * y)) % 5))] =
                                rotl_lane(perm.run[s].st[x + (5 * y)],
                                          C14_RhoXY[x + 1][y + 1])]_vars
    /\ []({PiIdx(i) : i \in 0 .. 23} = 1 .. 24)
    /\ [](\A i \in 1 .. 23 : PiIdx(i - 1) \notin {PiIdx(j) : j \in (i + 1) .. 23})
    /\ [](PiIdx(23) = 1)

\* rho_pi of round 5 of the compact entry point has just run, on a state
\* whose 25 lanes all differ.
C14_Witness ==
    /\ perm.run["compact"].pc = "permute"
    /\ perm.run["compact"].k = 2
    /\ perm.run["compact"].i = 5
    /\ perm.run["compact"].ops[Len(perm.run["compact"].ops)] = <<"rho_pi", 5>>
    /\ Cardinality({perm.run["compact"].st[n] : n \in 0 .. 24}) = 25

\* C15: for every round r in 0..23 the constant the compact iota builds from
\* rc_compressed[r] (bit 2^k - 1 set for each k in 0..6 with bit k of the
\* byte set) is round_constants[r], and each iota call of the compact entry
\* point XORs exactly round_constants[i] into lane 0 under round index i.
C15_CompressedConstants ==
    /\ [](\A r \in 0 .. 23 : rc_decompress(rc_compressed[r + 1]) = round_constants[r + 1])
    /\ [][(/\ perm.run["compact"].pc = "permute"
           /\ perm.run["compact"].k = 3
           /\ perm'.run["compact"].k = 0) =>
              perm'.run["compact"].st =
                  [perm.run["compact"].st EXCEPT
                      ![0] = Xor(@, round_constants[perm.run["compact"].i + 1])]]_vars

\* The compact entry point has made all its 24 iota calls and returned the
\* state the reference entry point returned.
C15_Witness ==
    /\ perm.run["compact"].pc = "done"
    /\ perm.run["compact"].i = KECCAK1600_NUM_ROUNDS
    /\ Len(SelectSeq(perm.run["compact"].ops, LAMBDA o : o[1] = "iota")) = 24
    /\ perm.run["ref"].pc = "done"
    /\ perm.run["compact"].st = perm.run["ref"].st

\* C16: for every index idx in 0..23 the closed form of the compact strategy,
\* ((idx + 1)(idx + 2) / 2) mod 64, is the tabulated offset rho_offsets[idx]:
\* 1, 3, 6, 10, 15, 21, 28, 36, 45, 55, 2, 14, 27, 41, 56, 8, 25, 43, 62, 18,
\* 39, 61, 20, 44; and each rho_pi call of the compact entry point leaves
\* the state the tabulated rho_pi leaves from the same state.
C16_RhoClosedForm ==
    /\ [](\A idx \in 0 .. 23 :
             /\ get_rho_for_idx_compact(idx) = rho_offsets[idx + 1]
             /\ get_rho_for_idx_compact(idx) = get_rho_for_idx(idx))
    /\ []([n \in 1 .. 24 |-> get_rho_for_idx_compact(n - 1)] =
             << 1, 3, 6, 10, 15, 21, 28, 36, 45, 55, 2, 14, 27, 41, 56, 8, 25, 43,
                62, 18, 39, 61, 20, 44 >>)
    /\ [][(/\ perm.run["compact"].pc = "permute"
           /\ perm.run["compact"].k = 1
           /\ perm'.run["compact"].k = 2) =>
              perm'.run["compact"].st = rho_pi(perm.run["compact"].st)]_vars

\* rho_pi of the first round of the compact entry point has run on a state
\* that was not all zero and has moved lanes.
C16_Witness ==
    /\ perm.run["compact"].ops = << <<"theta", 0>>, <<"rho_pi", 0>> >>
    /\ perm.S # ZeroLanes
    /\ perm.run["compact"].st # theta_compact(perm.S)

\* C17: for every test state S, keccakf1600_state_permute_intermediateur_lc
\* called on S with the lanes 1, 2, 8, 12, 17 and 20 inverted returns what
\* keccakf1600_state_permute_ref returns for S with the same six lanes
\* inverted; and after each round the buffer the lane complementing round
\* has written (N after rounds 0, 2, ..., st->A after rounds 1, 3, ...) is
\* the state of the reference strategy after as many rounds with exactly
\* those six lanes inverted.
C17_LaneComplementing ==
    LET l == perm.run["intermediateur_lc"]
        r == perm.run["ref"]
    IN (l.pc \in {"permute", "done"} /\ r.i = l.i /\ r.k = 0) =>
           /\ (IF l.i % 2 = 1 THEN l.N ELSE l.st) = LcMask(r.st)
           /\ \A n \in 0 .. 24 :
                  (IF l.i % 2 = 1 THEN l.N ELSE l.st)[n] =
                      (IF n \in {1, 2, 8, 12, 17, 20} THEN Not(r.st[n]) ELSE r.st[n])

\* Seven rounds of both entry points done from a state that was not all
\* zero: the lane complementing one has just written N.
C17_Witness ==
    /\ perm.run["intermediateur_lc"].pc = "permute"
    /\ perm.run["intermediateur_lc"].i = 7
    /\ perm.run["ref"].i = 7
    /\ perm.run["ref"].k = 0
    /\ perm.S # ZeroLanes
    /\ perm.run["intermediateur_lc"].N[8] = Not(perm.run["ref"].st[8])
    /\ perm.run["intermediateur_lc"].N[0] = perm.run["ref"].st[0]

C19_Padding ==
    /\ [][call.pc = "pad" =>
             LET extra == (call.delim_suffix >= 128 /\ call.block_off = call.rate_bytes - 1)
             IN /\ call'.st =
                       [call.st EXCEPT ![call.block_off \div 8] =
                           Xor(@, {(8 * (call.block_off % 8)) + b :
                                      b \in BitsOf(call.delim_suffix, 8)})]
                /\ call'.nperm = call.nperm + (IF extra THEN 1 ELSE 0)
                /\ call'.pc = (IF extra THEN "permute" ELSE "pad_final")
                /\ extra => call'.ret = "pad_final"]_vars
    /\ [][call.pc = "pad_final" =>
             /\ call'.st =
                    [call.st EXCEPT ![(call.rate_bytes - 1) \div 8] =
                        Xor(@, {(8 * ((call.rate_bytes - 1) % 8)) + 7})]
             /\ call'.nperm = call.nperm + 1
             /\ call'.pc = "permute"
             /\ call'.ret = "squeeze_enter"]_vars
    /\ [](call.delim_suffix = 6 => ~(call.pc = "permute" /\ call.ret = "pad_final"))
    /\ [](call.pc = "squeeze_enter" =>
             call.nperm = call.num_blocks + 1
                 + (IF call.delim_suffix >= 128 /\ call.delim_off = call.rate_bytes - 1
                    THEN 1 ELSE 0))

\* Absorb has returned from a call whose delimiter 0x86 fell into the last
\* byte of the block: the extra permutation and the final one have run.
C19_Witness ==
    /\ call.pc = "squeeze_enter"
    /\ call.delim_suffix = 134
    /\ call.delim_off = 71
    /\ call.pad_off = 71
    /\ call.rate_bytes = 72
    /\ call.nperm = 2

\* C20: a digest call starts absorbing from a state whose 25 lanes are all
\* zero when use_lc is clear, and whose lanes 1, 2, 8, 12, 17 and 20 are all
\* ones and the 19 others zero when use_lc is set: that is the state the
\* entry of the call leaves, and the state in which the first block, byte
\* or padding byte is absorbed.
C20_InitialState ==
    /\ [][call.pc = "enter" =>
             \A n \in 0 .. 24 :
                 call'.st[n] = (IF use_lc /\ n \in {1, 2, 8, 12, 17, 20}
                                THEN 0 .. 63 ELSE {})]_vars
    /\ []((/\ call.pc \in {"absorb_blocks", "absorb_rest", "pad"}
           /\ call.nperm = 0 /\ call.msg_off = 0 /\ call.block_off = 0) =>
              \A n \in 0 .. 24 :
                  call.st[n] = (IF use_lc /\ n \in {1, 2, 8, 12, 17, 20}
                                THEN 0 .. 63 ELSE {}))

\* A call under lane complementing is about to absorb its first block.
C20_Witness ==
    /\ call.pc = "absorb_blocks"
    /\ call.nperm = 0
    /\ call.ai = 0
    /\ call.num_blocks = 2
    /\ use_lc
    /\ call.st[20] = LaneOnes
    /\ call.st[19] = Lane0
    /\ call.lc_reads = {TRUE}

\* C21: with use_lc set, each block squeeze emits carries, inverted, every
\* byte of the state that belongs to one of the lanes 1, 2, 8, 12, 17, 20
\* and lies within the block, and every other byte as it is, whatever the
\* digest length, also when the block ends inside one of those lanes; the
\* digest is then the one the reference strategy returns without lane
\* complementing for the same call.
C21_LcSqueeze ==
    /\ [][(call.pc = "squeeze" /\ call.si > 0 /\ use_lc) =>
             \A j \in 0 .. ((IF call.si < call.s_rate_bytes
                             THEN call.si ELSE call.s_rate_bytes) - 1) :
                 call'.md[call.md_off + j] =
                     (IF (j \div 8) \in {1, 2, 8, 12, 17, 20}
                      THEN 255 - StateByte(call.st, j)
                      ELSE StateByte(call.st, j))]_vars
    /\ []((call.pc = "done" /\ use_lc) =>
             Digest(call) =
                 Digest(keccakf1600_oneshot(input.msg, Len(input.msg),
                                            input.md_len + MdGuard, input.md_len,
                                            input.delim, "ref", FALSE)))

\* C22: for every digest length md_len with rate r = 200 - 2 * md_len > 0,
\* each iteration of squeeze emits the first min(remaining, r) bytes of the
\* state at the output offset reached (as they are when use_lc is clear),
\* and calls the permutation exactly when output remains due after it;
\* squeeze returns, having stored to exactly the offsets 0..md_len-1 and
\* called the permutation ceil(md_len / r) - 1 times (after the one call
\* absorb made for the empty message); for md_len 32 and 64 there is one
\* block and no permutation in squeeze.
C22_SqueezeBlocks ==
    /\ [][(call.pc = "squeeze" /\ call.si > 0) =>
             LET n == IF call.si < 200 - (2 * call.md_len)
                      THEN call.si ELSE 200 - (2 * call.md_len)
             IN /\ n > 0
                /\ call'.block_len = n
                /\ call'.md_off = call.md_off + n
                /\ call'.si = call.si - n
                /\ call'.written = call.written \cup (call.md_off .. (call.md_off + n - 1))
                /\ ~use_lc =>
                       \A j \in 0 .. (n - 1) :
                           call'.md[call.md_off + j] = StateByte(frames[1].st, j)
                /\ \A k \in DOMAIN call.md :
                       (k < call.md_off \/ k >= call.md_off + n) => call'.md[k] = call.md[k]
                /\ call'.nperm = call.nperm + (IF call.si - n > 0 THEN 1 ELSE 0)
                /\ call.si - n > 0 => (call'.pc = "permute" /\ call'.ret = "squeeze")
                /\ call.si - n = 0 => call'.pc = "squeeze"]_vars
    /\ [](call.pc = "done" =>
             /\ call.si = 0
             /\ call.md_off = call.md_len
             /\ call.written = 0 .. (call.md_len - 1)
             /\ Len(call.msg) = 0 =>
                    call.nperm =
                        1 + (((call.md_len + (200 - (2 * call.md_len)) - 1)
                                 \div (200 - (2 * call.md_len))) - 1))
    /\ []((call.pc = "permute" /\ call.ret = "squeeze") => call.md_len \notin {32, 64})
    /\ <>(call.pc = "done")

\* A digest of 80 bytes at rate 40 has been squeezed in two blocks with one
\* permutation in between.
C22_Witness ==
    /\ call.pc = "done"
    /\ call.md_len = 80
    /\ call.s_rate_bytes = 40
    /\ call.block_len = 40
    /\ call.md_off = 80
    /\ call.nperm = 2
    /\ call.written = 0 .. 79

\* C23: run side by side on the same test state, the compact and in-place
\* entry points have, after each completed round k, the st->A the reference
\* entry point has after k rounds; the intermediate unrolled and early
\* parity entry points have it in the buffer round k has just written (N
\* after an odd number of rounds, st->A after an even number), which is
\* st->A after round 24.  (The lane complementing entry point holds the same
\* state with six lanes inverted: C17.)
C23_RoundByRound ==
    LET r == perm.run["ref"]
    IN /\ \A s \in {"compact", "inplaceur"} :
              LET t == perm.run[s]
              IN (t.pc \in {"permute", "done"} /\ t.i = r.i /\ t.k = 0 /\ r.k = 0) =>
                     t.st = r.st
       /\ \A s \in {"intermediateur", "intermediateur_ep"} :
              LET t == perm.run[s]
              IN (t.pc \in {"permute", "done"} /\ t.i = r.i /\ r.k = 0) =>
                     /\ (IF t.i % 2 = 1 THEN t.N ELSE t.st) = r.st
                     /\ t.i = KECCAK1600_NUM_ROUNDS => t.st = r.st

\* Every entry point has completed seven rounds from a state that was not
\* all zero; the two-buffer ones have just written N, and their st->A still
\* holds the state of the round before.
C23_Witness ==
    /\ \A s \in {"ref", "compact", "inplaceur", "intermediateur", "intermediateur_ep"} :
           perm.run[s].pc = "permute" /\ perm.run[s].i = 7 /\ perm.run[s].k = 0
    /\ perm.S # ZeroLanes
    /\ perm.run["intermediateur"].N = perm.run["ref"].st
    /\ perm.run["intermediateur"].st # perm.run["ref"].st
    /\ perm.run["intermediateur_ep"].N = perm.run["compact"].st

\* C24: in a call of the early parity entry point, at the start of each
\* round r in 0..23 the carried C[x] is S[x] ^ S[x+5] ^ S[x+10] ^ S[x+15] ^
\* S[x+20] for x in 0..4, S being the buffer round r reads (st->A when r is
\* even, N when r is odd): the entry point computes it from st->A before
\* round 0 and each of the rounds 0..22 leaves it rebuilt from the lanes it
\* wrote; round 23 leaves C as it found it.
C24_EarlyParity ==
    /\ [](LET e == perm.run["intermediateur_ep"]
              S == IF e.i % 2 = 0 THEN e.st ELSE e.N
          IN (e.pc = "permute" /\ e.i \in 0 .. 23) =>
                 \A x \in 0 .. 4 :
                     e.C[x] = Xor(Xor(Xor(Xor(S[x], S[x + 5]), S[x + 10]), S[x + 15]),
                                  S[x + 20]))
    /\ [][LET e == perm.run["intermediateur_ep"]
          IN (e.pc = "permute" /\ e.i = 23 /\ perm'.run["intermediateur_ep"].i = 24) =>
                 perm'.run["intermediateur_ep"].C = e.C]_vars
    /\ [][LET e == perm.run["intermediateur_ep"]
              W == IF e.i % 2 = 0 THEN perm'.run["intermediateur_ep"].N
                   ELSE perm'.run["intermediateur_ep"].st
          IN (e.pc = "permute" /\ e.i < 23
                  /\ perm'.run["intermediateur_ep"].i = e.i + 1) =>
                 \A x \in 0 .. 4 :
                     perm'.run["intermediateur_ep"].C[x] =
                         Xor(Xor(Xor(Xor(W[x], W[x + 5]), W[x + 10]), W[x + 15]),
                             W[x + 20])]_vars

\* The early parity entry point is about to run round 23 from a state that
\* was not all zero: C holds the column parities of N, which are not those
\* of st->A, nor those C held at the start of round 0.
C24_Witness ==
    LET e == perm.run["intermediateur_ep"]
    IN /\ e.pc = "permute"
       /\ e.i = 23
       /\ perm.S # ZeroLanes
       /\ e.C[0] = Xor(Xor(Xor(Xor(e.N[0], e.N[5]), e.N[10]), e.N[15]), e.N[20])
       /\ e.C[0] # Xor(Xor(Xor(Xor(e.st[0], e.st[5]), e.st[10]), e.st[15]), e.st[20])
       /\ e.C[0] # Parity(perm.S, 0)

\* What the entry point s returns in st->A when called on the state S.
C25_Permuted(s, S) ==
    RunSteps(permute_call(BenchCall(s, S), s, "done"), KECCAK1600_NUM_ROUNDS, s, FALSE).st

\* States to tell from S: the other test states, and S with one bit flipped.
C25_Others(S) ==
    ({TestState(seed) : seed \in 0 .. (NumSeeds - 1)}
        \cup {[S EXCEPT ![n] = Xor(@, {b})] : n \in {0, 7, 24}, b \in {0, 63}}) \ {S}

\* C25: each entry point returns, for the test state S, a state that it
\* returns for no other test state and for none of the states that differ
\* from S in one bit.
C25_Injective ==
    (\A s \in Strategies : perm.run[s].pc = "done") =>
        \A s \in Strategies :
            \A S2 \in C25_Others(perm.S) :
                C25_Permuted(s, S2) # perm.run[s].st

\* All entry points have returned from a state that was not all zero; the
\* reference one returned something else for that state with bit 0 of lane
\* 0 flipped, in lanes 0 and 24 among others.
C25_Witness ==
    /\ \A s \in Strategies : perm.run[s].pc = "done"
    /\ perm.S # ZeroLanes
    /\ C25_Permuted("ref", perm.S) = perm.run["ref"].st
    /\ LET o == C25_Permuted("ref", [perm.S EXCEPT ![0] = Xor(@, {0})])
       IN o[0] # perm.run["ref"].st[0] /\ o[24] # perm.run["ref"].st[24]

\* C26: whatever set calls and digest calls came before, and whatever the
\* output buffer and the automatic storage held when the call was made, the
\* digest a call returns is the one the same message and digest length give
\* under the selector pair in force on a buffer and storage never used; so
\* the same call made again under the same pair returns the same digest.
C26_HistoryFree ==
    call.pc = "done" =>
        /\ Digest(call) =
               Digest(keccakf1600_oneshot(input.msg, Len(input.msg),
                                          input.md_len + MdGuard, input.md_len, 6,
                                          func, use_lc))
        /\ \A k \in input.md_len .. (input.md_len + MdGuard - 1) :
               call.md[k] = FreshMd(input.md_len + MdGuard)[k]

\* The second digest call has returned the SHA3-256 of "abc" into a buffer
\* that held another digest, under a strategy set after the first call.
C26_Witness ==
    /\ call.pc = "done"
    /\ tests.k = 2
    /\ input = [msg |-> MsgAbc, md_len |-> 32]
    /\ lastSet = MainStrategies[Len(MainStrategies)]
    /\ Digest(call) = KAT256_abc
    /\ digests[64] = FreshMd(64 + MdGuard)
    /\ call.used = {"intermediateur_lc"}

\* C27: each step of absorb that writes to the state and is not a round of
\* the permutation (the XOR of a full block, of a remaining byte, of the
\* delimiter, of 0x80) leaves the state bytes r..199 as they were, r being
\* 200 - 2 * md_len; and what it changes in bytes 0..r-1 is the XOR of the
\* message or padding byte it took.
C27_CapacityFrame ==
    [][(call.pc \in {"absorb_blocks", "absorb_rest", "absorb_wrap", "pad", "pad_final"}) =>
          /\ \A j \in (200 - (2 * call.md_len)) .. 199 :
                 StateByte(call'.st, j) = StateByte(call.st, j)
          /\ call.pc = "pad" =>
                 \E j \in 0 .. (199 - (2 * call.md_len)) :
                     /\ call'.delim_off = j
                     /\ \A k \in 0 .. 199 :
                            StateByte(call'.st, k) =
                                IF k = j
                                THEN ByteOf(Xor(ByteLane(StateByte(call.st, k), 0),
                                                ByteLane(call.delim_suffix, 0)), 0)
                                ELSE StateByte(call.st, k)
          /\ call.pc = "pad_final" =>
                 \A k \in 0 .. 198 :
                     k # 199 - (2 * call.md_len) => StateByte(call'.st, k) = StateByte(call.st, k)
      ]_vars

\* The second full block of a message has been XORed into a state whose
\* capacity lanes hold what the first permutation left there.
C27_Witness ==
    /\ call.pc = "permute"
    /\ call.ret = "absorb_blocks"
    /\ call.i = 0
    /\ call.nperm = 2
    /\ call.md_len = 32
    /\ call.msg_off = 272
    /\ \A n \in 17 .. 24 : call.st[n] # {}

\* C28: in the loop of absorb over the bytes that remain after the full
\* blocks the block offset stays below r = 200 - 2 * md_len, so the loop
\* never takes its branch that calls the permutation and resets the offset;
\* and the delimiter is XORed at block offset msg_len mod r, a byte of the
\* rate portion 0..r-1.
C28_BlockOffset ==
    /\ call.pc \in {"absorb_rest", "pad"} => call.block_off < 200 - (2 * call.md_len)
    /\ ~(call.pc = "permute" /\ call.ret = "absorb_wrap")
    /\ call.pc # "absorb_wrap"
    /\ call.pc = "pad" =>
           call.block_off = Len(call.msg) % (200 - (2 * call.md_len))
    /\ call.delim_off # -1 =>
           /\ call.delim_off = Len(call.msg) % (200 - (2 * call.md_len))
           /\ call.delim_off \in 0 .. (199 - (2 * call.md_len))

\* C29: every rotl_lane call of every permutation strategy is given a
\* rotation amount in 1..63, so neither of its two shifts is a shift by 64
\* or more or by a negative count: no lane the strategies hold (st->A, the
\* intermediate state N, the parities C) is ever the result of an undefined
\* shift, however far the calls have advanced.
C29_RotationAmounts ==
    \A s \in Strategies :
        /\ \A n \in 0 .. (KECCAK_NUM_LANES - 1) :
               /\ perm.run[s].st[n] \subseteq LaneBits
               /\ perm.run[s].N[n] \subseteq LaneBits
        /\ \A x \in 0 .. (KECCAK_NUM_COLS - 1) : perm.run[s].C[x] \subseteq LaneBits

\* Every strategy has run its 24 rounds on a state that is not all zero, and
\* each went through theta and rho with lanes that had bits to rotate.
C29_Witness ==
    /\ perm.S # ZeroLanes
    /\ \A s \in Strategies :
           /\ perm.run[s].pc = "done"
           /\ perm.run[s].i = KECCAK1600_NUM_ROUNDS
           /\ \A n \in 0 .. (KECCAK_NUM_LANES - 1) :
                  perm.run[s].st[n] # {} /\ perm.run[s].st[n] # LaneOnes

\* The circular left rotation of the 64-bit lane x by m places.
C30_Rotation(x, m) == {(b + m) % KECCAK1600_LANE_BITS : b \in x}

C30_InRange ==
    (call.pc = "returned" /\ input.times \in 1 .. (KECCAK1600_LANE_BITS - 1)) =>
        call.res = C30_Rotation(input.val, input.times)

=============================================================================
